---- MODULE Spec2Model ----
(***************************************************************************)
(* A model of the client-side task synchronisation of shadcn-table:        *)
(*   - the signature functions of the task-processor worker                *)
(*     (generateSignature / generateCacheKey, and the                      *)
(*     normalizeTasksForComparison + JSON.stringify snapshot),             *)
(*   - the debouncing, caching worker (processTasks / processPendingTasks),*)
(*   - the TasksProvider of stores/task-store.tsx, worker-signature        *)
(*     variant, with its local cache (Dexie) and remote fetch.             *)
(*   - the server actions of app/_lib/actions.ts on the remote store,      *)
(*   - the TasksProvider instances of a session and their workers,         *)
(*   - the row actions of the tasks table,                                 *)
(*   - the retry of the initial load, useDeepCompareEffect,                *)
(*     syncTasksFromRedis and the queries of app/_lib/queries.ts.          *)
(* The specifications share the variables; each leaves the parts it does   *)
(* not describe at their idle value.                                       *)
(***************************************************************************)
EXTENDS Integers, Sequences, FiniteSets, TLC

VARIABLES
  \* SpecSignature: a collection, a second one derived from it, how it was
  \* derived, and the signatures computed for both
  sT, sP, sKind, sOut,
  \* SpecWorker: the state of the caching worker and its message channel
  taskCache, pendingTasks, debounceTimeout, clock, wInbox, wPosted, wReqs,
  \* Spec: the state of TasksProvider, the local cache and the channel to
  \* the bare-array worker
  mounted, devMode, allTasks, isLoadingAllTasks, errorLoadingAllTasks,
  currentTasksSignature, sigEffectPending, effectSig, idb, idbFailures,
  cyc, listeners, inbox, workerErrors,
  \* SpecStore, SpecFetch: the remote store, the server's clock, the call of
  \* getAllTasksFromKV in progress and the last server action that returned
  redis, serverNow, kv, lastOp,
  \* SpecSession: the TasksProvider instances and the workers created
  providers, workers,
  \* SpecUI: the row actions started in the tasks table
  ui,
  \* SpecRetry: the TasksProvider with retry of the initial load
  retry,
  \* SpecHook: a component that calls useDeepCompareEffect
  hook,
  \* SpecSync: a call of syncTasksFromRedis and the table it writes
  sync,
  \* SpecQuery: the cache content and parameters of a query and its results
  query

sigVars == <<sT, sP, sKind, sOut>>
wkVars ==
  <<taskCache, pendingTasks, debounceTimeout, clock, wInbox, wPosted, wReqs>>
coVars ==
  <<mounted, devMode, allTasks, isLoadingAllTasks, errorLoadingAllTasks,
    currentTasksSignature, sigEffectPending, effectSig, idb, idbFailures,
    cyc, listeners, inbox, workerErrors>>
stVars == <<redis, serverNow, kv, lastOp>>
exVars == <<retry, hook, sync, query>>
appVars == <<stVars, providers, workers, ui, exVars>>
vars == <<sigVars, wkVars, coVars, appVars>>

(***************************************************************************)
(* Bounds of the model.                                                    *)
(***************************************************************************)
\* number of task identifiers, and longest collection, of SpecSignature
MaxTasks == 3
\* messages the worker is sent in SpecWorker
MaxMessages == 3
\* how far Date.now() advances in SpecWorker
MaxClock == 1
\* sync cycles (initial loads and resyncs) started in Spec
MaxCycles == 2
\* operations of the local cache that fail in Spec
MaxIdbFailures == 1
\* error events the bare-array worker raises in Spec
MaxWorkerErrors == 1

(***************************************************************************)
(* Program constants of the worker.                                        *)
(***************************************************************************)
CHUNK_SIZE == 1000
CACHE_SIZE == 100

(***************************************************************************)
(* Values.  A timestamp field of a task as JavaScript holds it: a Date     *)
(* object, an ISO string (what JSON from the remote store carries), a      *)
(* string no Date can be parsed from, a Date object whose time is NaN, or  *)
(* nothing at all.  ms is the instant in milliseconds.                     *)
(***************************************************************************)
DateObj(ms) == [k |-> "Date", ms |-> ms]
IsoStr(ms) == [k |-> "iso", ms |-> ms]
BadStr == [k |-> "bad", ms |-> 0]
InvalidDate == [k |-> "InvalidDate", ms |-> 0]
Undefined == [k |-> "undefined", ms |-> 0]

\* instants used by the model: two in the same second, one in another
DateMs == {1000, 1001, 2000}

DateVals ==
  {DateObj(ms) : ms \in DateMs} \cup {IsoStr(ms) : ms \in DateMs}
    \cup {BadStr, InvalidDate, Undefined}

Statuses == {"todo", "in-progress", "done", "canceled"}
Labels == {"bug", "feature", "documentation", "enhancement"}
Priorities == {"low", "medium", "high"}
Titles == {"t1", "t2"}

Fields ==
  {"id", "code", "title", "status", "label", "priority", "estimatedHours",
   "archived", "createdAt", "updatedAt"}

\* the values a field may be changed to
FieldVals(f) ==
  CASE f = "id" -> 1..(MaxTasks + 1)
    [] f = "code" -> 1..(MaxTasks + 1)
    [] f = "title" -> Titles
    [] f = "status" -> Statuses
    [] f = "label" -> Labels
    [] f = "priority" -> Priorities
    [] f = "estimatedHours" -> {0, 1}
    [] f = "archived" -> BOOLEAN
    [] f = "createdAt" -> DateVals
    [] f = "updatedAt" -> DateVals

\* interface Task
Task(i, st, up) ==
  [id |-> i, code |-> i, title |-> "t1", estimatedHours |-> 1, status |-> st,
   label |-> "bug", priority |-> "low", archived |-> FALSE,
   createdAt |-> IsoStr(1000), updatedAt |-> up]

BaseTask(i) == Task(i, "todo", IsoStr(1000))

Range(s) == {s[i] : i \in DOMAIN s}

\* sequences without repetition over a set, of length at most n
RECURSIVE DistinctSeqs(_, _)
DistinctSeqs(S, n) ==
  IF n = 0 \/ S = {} THEN {<<>>}
  ELSE {<<>>} \cup
       UNION {{<<x>> \o r : r \in DistinctSeqs(S \ {x}, n - 1)} : x \in S}

PermutationsOf(s) == {p \in DistinctSeqs(Range(s), Len(s)) : Len(p) = Len(s)}

\* stable sort: the elements of s in ascending order of their keys
\* (keys[i] is the key of s[i]); equal keys keep their order in s
StableSort(s, keys) ==
  LET Before(j, i) == keys[j] < keys[i] \/ (keys[j] = keys[i] /\ j < i)
      Place(i) == Cardinality({j \in DOMAIN s : Before(j, i)}) + 1
  IN  [p \in DOMAIN s |-> s[CHOOSE i \in DOMAIN s : Place(i) = p]]

(***************************************************************************)
(* The worker snapshot that answers a bare task array with a bare string:  *)
(* normalizeTasksForComparison, then JSON.stringify.  The string is        *)
(* modelled by the value it serialises.                                    *)
(***************************************************************************)
\* task.createdAt ? new Date(task.createdAt).getTime() : 0, as JSON prints it:
\* a number, or null for NaN
NormalizeTime(d) ==
  CASE d.k = "undefined" -> [k |-> "number", ms |-> 0]
    [] d.k \in {"Date", "iso"} -> [k |-> "number", ms |-> d.ms]
    [] OTHER -> [k |-> "null", ms |-> 0]

\* .sort((a, b) => a.id.localeCompare(b.id)) over the mapped tasks
normalizeTasksForComparison(tasks) ==
  StableSort(
    [i \in DOMAIN tasks |->
       [tasks[i] EXCEPT !.createdAt = NormalizeTime(tasks[i].createdAt),
                        !.updatedAt = NormalizeTime(tasks[i].updatedAt)]],
    [i \in DOMAIN tasks |-> tasks[i].id])

\* a JavaScript string: the empty string, or the JSON text of a value
EmptyString == [json |-> FALSE, v |-> <<>>]
JsonString(v) == [json |-> TRUE, v |-> v]

\* self.onmessage of the bare-array worker
SimpleSignature(tasks) == JsonString(normalizeTasksForComparison(tasks))

(***************************************************************************)
(* The worker snapshot with ids, cache and debounce.                       *)
(***************************************************************************)
\* t.updatedAt instanceof Date ? t.updatedAt.toISOString() : t.updatedAt,
\* as JSON.stringify prints the property (an undefined property is omitted)
MinimalUpdatedAt(d) ==
  CASE d.k \in {"Date", "iso"} -> [k |-> "string-iso", ms |-> d.ms]
    [] d.k = "bad" -> [k |-> "string-bad", ms |-> 0]
    [] OTHER -> [k |-> "omitted", ms |-> 0]

\* toISOString throws a RangeError on a Date whose time is NaN
SignatureThrows(tasks) ==
  \E i \in DOMAIN tasks : tasks[i].updatedAt.k = "InvalidDate"

RECURSIVE Chunks(_)
Chunks(tasks) ==
  IF tasks = <<>> THEN <<>>
  ELSE IF Len(tasks) <= CHUNK_SIZE THEN <<tasks>>
       ELSE <<SubSeq(tasks, 1, CHUNK_SIZE)>>
              \o Chunks(SubSeq(tasks, CHUNK_SIZE + 1, Len(tasks)))

MinimalChunk(chunk) ==
  [i \in DOMAIN chunk |->
     [id |-> chunk[i].id, status |-> chunk[i].status,
      priority |-> chunk[i].priority,
      updatedAt |-> MinimalUpdatedAt(chunk[i].updatedAt)]]

\* the concatenation of the chunks' JSON texts, as the list of the chunks
generateSignature(tasks) ==
  LET chunks == Chunks(tasks)
  IN  [c \in DOMAIN chunks |-> MinimalChunk(chunks[c])]

\* `${t.updatedAt}`: Date.prototype.toString prints whole seconds
UpdatedAtToString(d) ==
  CASE d.k = "Date" -> [k |-> "datestring", ms |-> (d.ms \div 1000) * 1000]
    [] d.k = "iso" -> [k |-> "string-iso", ms |-> d.ms]
    [] OTHER -> [k |-> d.k, ms |-> 0]

KindRank(k) ==
  CASE k = "datestring" -> 1
    [] k = "string-iso" -> 2
    [] k = "bad" -> 3
    [] k = "InvalidDate" -> 4
    [] OTHER -> 5

\* the place Array.prototype.sort gives a `${id}:${updatedAt}` string
KeyPartRank(p) == p.id * 100000 + KindRank(p.at.k) * 10000 + p.at.ms

\* .map(...).sort().join("|"), as the sorted list of the parts
generateCacheKey(tasks) ==
  LET parts == [i \in DOMAIN tasks |->
                  [id |-> tasks[i].id,
                   at |-> UpdatedAtToString(tasks[i].updatedAt)]]
  IN  StableSort(parts, [i \in DOMAIN parts |-> KeyPartRank(parts[i])])

(***************************************************************************)
(* The parts at rest: what a specification leaves the other parts at.      *)
(***************************************************************************)
SigIdle ==
  /\ sT = <<>> /\ sP = <<>> /\ sKind = "idle"
  /\ sOut = [gT |-> <<>>, gP |-> <<>>, nT |-> EmptyString, nP |-> EmptyString,
             threw |-> FALSE]

WorkerIdle ==
  /\ taskCache = <<>> /\ pendingTasks = <<>> /\ debounceTimeout = FALSE
  /\ clock = 0 /\ wInbox = <<>> /\ wPosted = <<>> /\ wReqs = <<>>

ProviderIdle ==
  /\ mounted = FALSE /\ devMode = FALSE /\ allTasks = <<>>
  /\ isLoadingAllTasks = TRUE /\ errorLoadingAllTasks = "null"
  /\ currentTasksSignature = EmptyString /\ sigEffectPending = FALSE
  /\ effectSig = EmptyString /\ idb = {} /\ idbFailures = 0
  /\ cyc = <<>> /\ listeners = <<>> /\ inbox = <<>> /\ workerErrors = 0

\* the remote store with no key in it
EmptyStore == [k \in {} |-> 0]

NoCall ==
  [pc |-> "idle", keys |-> <<>>, hasData |-> FALSE, data |-> <<>>,
   error |-> "null", disturbed |-> FALSE]

NoOp == [op |-> "none", ids |-> {}, ok |-> FALSE]

StoreIdle ==
  /\ redis = EmptyStore /\ serverNow = 0 /\ kv = NoCall /\ lastOp = NoOp

SessionIdle == providers = <<>> /\ workers = <<>>

UiIdle == ui = <<>>

\* the retry provider, the hook, the sync service and the queries unused
ExIdle == retry = <<>> /\ hook = <<>> /\ sync = <<>> /\ query = <<>>

AppIdle == StoreIdle /\ SessionIdle /\ UiIdle /\ ExIdle

(***************************************************************************)
(* SpecSignature: the two signature functions applied to a collection and  *)
(* to a permutation or a single-field change of it.                        *)
(***************************************************************************)
\* collections of tasks with distinct identifiers
SigInputs == DistinctSeqs({BaseTask(i) : i \in 1..MaxTasks}, MaxTasks)

SigResults(T, P) ==
  [gT |-> generateSignature(T), gP |-> generateSignature(P),
   nT |-> SimpleSignature(T), nP |-> SimpleSignature(P),
   threw |-> SignatureThrows(T) \/ SignatureThrows(P)]

SigInit ==
  /\ sT \in SigInputs
  /\ sP = sT
  /\ sKind = "same"
  /\ sOut = SigResults(sT, sT)

\* the same tasks in another order
Shuffle ==
  /\ sKind = "same"
  /\ \E p \in PermutationsOf(sT) :
       /\ sP' = p
       /\ sOut' = SigResults(sT, p)
  /\ sKind' = "permuted"
  /\ UNCHANGED <<sT, wkVars, coVars, appVars>>

\* one field of one task changed to another value
MutateField ==
  /\ sKind = "same"
  /\ \E i \in DOMAIN sT, f \in Fields :
       \E v \in FieldVals(f) \ {sT[i][f]} :
         LET p == [sT EXCEPT ![i][f] = v]
         IN  /\ sP' = p
             /\ sOut' = SigResults(sT, p)
             /\ sKind' = f
  /\ UNCHANGED <<sT, wkVars, coVars, appVars>>

SigNext == Shuffle \/ MutateField

InitSignature == SigInit /\ WorkerIdle /\ ProviderIdle /\ AppIdle

SpecSignature == InitSignature /\ [][SigNext]_vars

(***************************************************************************)
(* SpecWorker: the worker with ids, cache and debounce.  taskCache and     *)
(* pendingTasks are Maps, kept as the list of their entries in insertion   *)
(* order.  A pending entry holds the resolve function of the promise that  *)
(* the handler of one message awaits: req is that message's place in       *)
(* wReqs, the list of all messages sent.                                   *)
(***************************************************************************)
\* Map.prototype.set: a present key keeps its place and gets the new value
MapSet(map, key, entry) ==
  IF \E i \in DOMAIN map : map[i].key = key
  THEN [i \in DOMAIN map |-> IF map[i].key = key THEN entry ELSE map[i]]
  ELSE Append(map, entry)

MapHas(map, key) == \E i \in DOMAIN map : map[i].key = key
MapGet(map, key) == map[CHOOSE i \in DOMAIN map : map[i].key = key]

\* cleanCache that never removes an entry
cleanCacheNever(cache, now) == cache

cleanCache(cache, now) ==
  IF Len(cache) <= CACHE_SIZE THEN cache
  ELSE LET sorted ==
             StableSort(cache,
               [i \in DOMAIN cache |->
                  cache[i].weight * (now - cache[i].timestamp)])
           removed ==
             {sorted[i].key : i \in 1..(Len(cache) - CACHE_SIZE)}
           Kept(e) == e.key \notin removed
       IN  SelectSeq(cache, Kept)

\* the messages the page may post
WorkerCollections ==
  {<<Task(1, "todo", DateObj(1000)), Task(2, "todo", DateObj(1000))>>,
   <<Task(2, "todo", DateObj(1000)), Task(1, "todo", DateObj(1000))>>,
   <<Task(1, "done", DateObj(1000)), Task(2, "todo", DateObj(1000))>>,
   <<Task(1, "todo", InvalidDate)>>}

WorkerMessages ==
  [id : {"a", "b"}, tasks : WorkerCollections, type : {"process"}]
    \cup [id : {"a", "b"}, tasks : {<<>>}, type : {"cleanup", "unknown"}]

WorkerInit ==
  /\ taskCache = <<>>
  /\ pendingTasks = <<>>
  /\ debounceTimeout = FALSE
  /\ clock = 0
  /\ wInbox = <<>>
  /\ wPosted = <<>>
  /\ wReqs = <<>>

\* worker.postMessage(message) on the page
WorkerPost ==
  /\ Len(wReqs) < MaxMessages
  /\ \E m \in WorkerMessages :
       /\ wReqs' = Append(wReqs, m)
       /\ wInbox' = Append(wInbox, [msg |-> m, req |-> Len(wReqs) + 1])
  /\ UNCHANGED <<taskCache, pendingTasks, debounceTimeout, clock, wPosted,
                 sigVars, coVars, appVars>>

\* Response that leaves the id of the request out
ResponseWithoutId(id, kind, signature, req) ==
  [id |-> "none", kind |-> kind, signature |-> signature, req |-> req]

Response(id, kind, signature, req) ==
  [id |-> id, kind |-> kind, signature |-> signature, req |-> req]

\* self.onmessage and the processTasks it calls
WorkerOnMessage ==
  /\ wInbox /= <<>>
  /\ LET m == Head(wInbox).msg
         req == Head(wInbox).req
         cacheKey == generateCacheKey(m.tasks)
     IN  CASE m.type = "process" /\ MapHas(taskCache, cacheKey) ->
                LET cached == MapGet(taskCache, cacheKey)
                IN  /\ taskCache' =
                         MapSet(taskCache, cacheKey,
                           [cached EXCEPT !.weight = @ + 1,
                                          !.timestamp = clock])
                    /\ wPosted' =
                         Append(wPosted,
                           Response(m.id, "signature", cached.signature, req))
                    /\ UNCHANGED <<pendingTasks, debounceTimeout>>
           [] m.type = "process" /\ ~MapHas(taskCache, cacheKey) ->
                /\ pendingTasks' =
                     MapSet(pendingTasks, m.id,
                       [key |-> m.id, tasks |-> m.tasks, req |-> req])
                /\ debounceTimeout' = TRUE
                /\ UNCHANGED <<taskCache, wPosted>>
           [] m.type = "cleanup" ->
                /\ taskCache' = <<>>
                /\ pendingTasks' = <<>>
                /\ debounceTimeout' = FALSE
                /\ wPosted' =
                     Append(wPosted, Response(m.id, "cleanup", <<>>, req))
           [] OTHER ->
                /\ wPosted' =
                     Append(wPosted, Response(m.id, "error", <<>>, req))
                /\ UNCHANGED <<taskCache, pendingTasks, debounceTimeout>>
  /\ wInbox' = Tail(wInbox)
  /\ UNCHANGED <<clock, wReqs, sigVars, coVars, appVars>>

\* the loop of processPendingTasks over the entries from the i-th on: the
\* cache it leaves and the responses its resolve calls lead to
RECURSIVE PendingLoop(_, _, _, _)
PendingLoop(pending, i, cache, now) ==
  IF i > Len(pending) THEN [cache |-> cache, posted |-> <<>>]
  ELSE LET e == pending[i]
           cacheKey == generateCacheKey(e.tasks)
           signature == generateSignature(e.tasks)
       IN  IF SignatureThrows(e.tasks)
           THEN LET rest == PendingLoop(pending, i + 1, cache, now)
                IN  [cache |-> rest.cache,
                     posted |-> <<Response(e.key, "error", <<>>, e.req)>>
                                  \o rest.posted]
           ELSE LET set == MapSet(cache, cacheKey,
                             [key |-> cacheKey, signature |-> signature,
                              timestamp |-> now, weight |-> 1])
                    rest ==
                      PendingLoop(pending, i + 1, cleanCache(set, now), now)
                IN  [cache |-> rest.cache,
                     posted |->
                       <<Response(e.key, "signature", signature, e.req)>>
                         \o rest.posted]

\* the debounce timer fires
processPendingTasks ==
  /\ debounceTimeout
  /\ LET done == PendingLoop(pendingTasks, 1, taskCache, clock)
     IN  /\ taskCache' = done.cache
         /\ wPosted' = wPosted \o done.posted
  /\ pendingTasks' = <<>>
  /\ debounceTimeout' = FALSE
  /\ UNCHANGED <<clock, wInbox, wReqs, sigVars, coVars, appVars>>

\* time passes: Date.now() grows
Tick ==
  /\ clock < MaxClock
  /\ clock' = clock + 1
  /\ UNCHANGED <<taskCache, pendingTasks, debounceTimeout, wInbox, wPosted,
                 wReqs, sigVars, coVars, appVars>>

WorkerNext == WorkerPost \/ WorkerOnMessage \/ processPendingTasks \/ Tick

InitWorker == WorkerInit /\ SigIdle /\ ProviderIdle /\ AppIdle

SpecWorker == InitWorker /\ [][WorkerNext]_vars

(***************************************************************************)
(* SpecFullCache: the same worker late in a session, when taskCache holds  *)
(* CACHE_SIZE entries, left by as many earlier requests for collections    *)
(* other than those of WorkerCollections.                                  *)
(***************************************************************************)
\* the collection the i-th earlier request was for
EarlierCollection(i) == <<Task(10 + i, "todo", DateObj(1000))>>

FullCache ==
  [i \in 1..CACHE_SIZE |->
     [key |-> generateCacheKey(EarlierCollection(i)),
      signature |-> generateSignature(EarlierCollection(i)),
      timestamp |-> 0, weight |-> 1]]

InitFullCache ==
  /\ taskCache = FullCache
  /\ pendingTasks = <<>>
  /\ debounceTimeout = FALSE
  /\ clock = 0
  /\ wInbox = <<>>
  /\ wPosted = <<>>
  /\ wReqs = <<>>
  /\ SigIdle
  /\ ProviderIdle
  /\ AppIdle

SpecFullCache == InitFullCache /\ [][WorkerNext]_vars

(***************************************************************************)
(* Spec: TasksProvider of stores/task-store.tsx, worker-signature variant, *)
(* with the Dexie table db.tasks (idb), the remote store read by           *)
(* getAllTasksFromKV and the bare-array worker.                            *)
(*                                                                         *)
(* The remote store is changed by other clients at any time, so a fetch    *)
(* may give any content.  inbox is the channel to the worker: the arrays   *)
(* posted and not yet answered.  The worker answers in the order it is     *)
(* asked and keeps nothing between messages, so its answer is computed     *)
(* when the page receives it.  idbFailures and workerErrors count the      *)
(* failures of cache operations and of the worker so far.                  *)
(*                                                                         *)
(* cyc lists the sync cycles in the order they were started; a cycle is    *)
(* one run of loadInitialData or one call of fetchAllTasksFromServer by    *)
(* the page.  pc is where the cycle's async function is suspended:         *)
(*   readIDB    await db.tasks.toArray() of loadInitialData                *)
(*   fetch      await getAllTasksFromKV()                                  *)
(*   errRead    await db.tasks.toArray() after result.error                *)
(*   catchRead  await db.tasks.toArray() in the catch block                *)
(*   awaitSig   await fetchedSignaturePromise                              *)
(*   clear      await db.tasks.clear()                                     *)
(*   bulkPut    await db.tasks.bulkPut(fetchedDataSafe)                    *)
(*   done       the function has returned                                  *)
(*   rejected   the function's promise was rejected                        *)
(* kind is "initial" while inside the try block of loadInitialData,        *)
(* "retry" for the fetch its catch block starts, "resync" for a call by    *)
(* the page.  closureSig is the currentTasksSignature the function closed  *)
(* over, reply what the fetch gave.  The other fields record               *)
(* what the cycle did: the array read from the cache, the cycles in flight *)
(* when it called fetchAllTasksFromServer, the numbers of remote fetches,  *)
(* signature requests, setAllTasks calls and completed cache writes,       *)
(* whether it adopted the fetched data, which request the message that     *)
(* resolved its promise answered (0: one of the allTasks effect, c: the    *)
(* one of cycle c), and whether the promise was rejected.                  *)
(***************************************************************************)
A1 == Task(1, "todo", IsoStr(1000))
A1done == Task(1, "done", IsoStr(2000))
A2 == Task(2, "todo", IsoStr(1000))

\* what the remote store may hold: nothing, two tasks, or the first task
\* updated and the second deleted
StoreContents == {{}, {A1, A2}, {A1done}}

\* what an earlier session may have left in the cache
CacheContents == {{}, {A1, A2}}

\* db.tasks.toArray(): the records in the order of their primary key
toArray(table) ==
  CHOOSE s \in DistinctSeqs(table, Cardinality(table)) :
    /\ Len(s) = Cardinality(table)
    /\ \A i, j \in DOMAIN s : i < j => s[i].id < s[j].id

\* db.tasks.bulkPut(tasks): one record per id, the last one put
bulkPut(table, tasks) ==
  LET ids == {tasks[i].id : i \in DOMAIN tasks}
      Last(id) ==
        CHOOSE i \in DOMAIN tasks :
          tasks[i].id = id /\ \A j \in DOMAIN tasks : j > i => tasks[j].id /= id
  IN  {t \in table : t.id \notin ids} \cup {tasks[Last(id)] : id \in ids}

NoReply == [type |-> "none", data |-> <<>>]

\* a cycle is inside fetchAllTasksFromServer
InFlight(c) == cyc[c].pc \notin {"readIDB", "done", "rejected"}

NewCycle(kind, pc, fetches) ==
  [kind |-> kind, pc |-> pc, closureSig |-> currentTasksSignature,
   reply |-> NoReply, cacheRead |-> <<>>,
   during |-> IF pc = "fetch" THEN {c \in DOMAIN cyc : InFlight(c)} ELSE {},
   fetches |-> fetches, sigRequests |-> 0, sets |-> 0, writes |-> 0,
   adopted |-> FALSE, sigFrom |-> -1, sigFailed |-> FALSE]

ProviderInit ==
  /\ mounted = FALSE
  /\ devMode \in BOOLEAN
  /\ allTasks = <<>>
  /\ isLoadingAllTasks = TRUE
  /\ errorLoadingAllTasks = "null"
  /\ currentTasksSignature = EmptyString
  /\ sigEffectPending = FALSE
  /\ effectSig = EmptyString
  /\ idb \in CacheContents
  /\ idbFailures = 0
  /\ cyc = <<>>
  /\ listeners = <<>>
  /\ inbox = <<>>
  /\ workerErrors = 0

\* The effects of the first commit, in their order: the worker is created,
\* the signature effect sees the empty allTasks, the initial-load effect
\* starts loadInitialData with the fetchAllTasksFromServer of that render.
Mount ==
  /\ ~mounted
  /\ mounted' = TRUE
  /\ cyc' = <<NewCycle("initial", "readIDB", 0)>>
  /\ effectSig' = currentTasksSignature
  /\ currentTasksSignature' = JsonString(<<>>)
  /\ isLoadingAllTasks' = TRUE
  /\ UNCHANGED <<devMode, allTasks, errorLoadingAllTasks, sigEffectPending,
                 idb, idbFailures, listeners, inbox, workerErrors, sigVars,
                 wkVars, appVars>>

\* The initial-load effect depends on fetchAllTasksFromServer, a new
\* function whenever currentTasksSignature changes; outside development
\* nothing keeps it from running loadInitialData again.
InitialLoadEffect ==
  /\ mounted /\ ~devMode
  /\ effectSig /= currentTasksSignature
  /\ Len(cyc) < MaxCycles
  /\ cyc' = Append(cyc, NewCycle("initial", "readIDB", 0))
  /\ effectSig' = currentTasksSignature
  /\ isLoadingAllTasks' = TRUE
  /\ UNCHANGED <<mounted, devMode, allTasks, errorLoadingAllTasks,
                 currentTasksSignature, sigEffectPending, idb, idbFailures,
                 listeners, inbox, workerErrors, sigVars, wkVars, appVars>>

\* The page calls the fetchAllTasksFromServer of the latest render.
Resync ==
  /\ mounted
  /\ Len(cyc) < MaxCycles
  /\ cyc' = Append(cyc, NewCycle("resync", "fetch", 1))
  /\ isLoadingAllTasks' = TRUE
  /\ errorLoadingAllTasks' = "null"
  /\ UNCHANGED <<mounted, devMode, allTasks, currentTasksSignature,
                 sigEffectPending, effectSig, idb, idbFailures, listeners,
                 inbox, workerErrors, sigVars, wkVars, appVars>>

\* the call of fetchAllTasksFromServer by loadInitialData: the fields of
\* the cycle once the call has reached its await
EnterFetch(c, kind) ==
  [cyc[c] EXCEPT !.kind = kind, !.pc = "fetch", !.fetches = @ + 1,
                 !.during = {d \in DOMAIN cyc : d /= c /\ InFlight(d)}]

\* the outcomes of an operation of the local cache: TRUE when it succeeds
IdbOutcomes == IF idbFailures < MaxIdbFailures THEN BOOLEAN ELSE {TRUE}

\* InitRead with a catch (idbError) that only records the failure and does
\* not call fetchAllTasksFromServer
InitReadGivesUp(c) ==
  /\ cyc[c].pc = "readIDB"
  /\ \E ok \in IdbOutcomes :
       /\ idbFailures' = IF ok THEN idbFailures ELSE idbFailures + 1
       /\ IF ok
          THEN LET offlineTasks == toArray(idb)
               IN  /\ allTasks' = IF Len(offlineTasks) > 0 THEN offlineTasks
                                   ELSE allTasks
                   /\ sigEffectPending' =
                        IF Len(offlineTasks) > 0 THEN TRUE
                        ELSE sigEffectPending
                   /\ cyc' = [cyc EXCEPT
                                ![c] = [EnterFetch(c, "initial") EXCEPT
                                          !.cacheRead = offlineTasks]]
                   /\ isLoadingAllTasks' = TRUE
                   /\ errorLoadingAllTasks' = "null"
          ELSE /\ cyc' = [cyc EXCEPT ![c].kind = "retry", ![c].pc = "done"]
               /\ isLoadingAllTasks' = FALSE
               /\ errorLoadingAllTasks' = "idb-error"
               /\ UNCHANGED <<allTasks, sigEffectPending>>
  /\ UNCHANGED <<mounted, devMode, currentTasksSignature, effectSig, idb,
                 listeners, inbox, workerErrors, sigVars, wkVars, appVars>>

\* InitRead calling fetchAllTasksFromServer without setAllTasks(offlineTasks)
InitReadFetchFirst(c) ==
  /\ cyc[c].pc = "readIDB"
  /\ \E ok \in IdbOutcomes :
       /\ idbFailures' = IF ok THEN idbFailures ELSE idbFailures + 1
       /\ cyc' = [cyc EXCEPT
                    ![c] = IF ok
                           THEN [EnterFetch(c, "initial") EXCEPT
                                   !.cacheRead = toArray(idb)]
                           ELSE EnterFetch(c, "retry")]
  /\ isLoadingAllTasks' = TRUE
  /\ errorLoadingAllTasks' = "null"
  /\ UNCHANGED <<mounted, devMode, allTasks, sigEffectPending,
                 currentTasksSignature, effectSig, idb, listeners, inbox,
                 workerErrors, sigVars, wkVars, appVars>>

\* loadInitialData resumes from db.tasks.toArray()
InitRead(c) ==
  /\ cyc[c].pc = "readIDB"
  /\ \E ok \in IdbOutcomes :
       /\ idbFailures' = IF ok THEN idbFailures ELSE idbFailures + 1
       /\ IF ok
          THEN LET offlineTasks == toArray(idb)
               IN  IF Len(offlineTasks) > 0
                   THEN /\ allTasks' = offlineTasks
                        /\ sigEffectPending' = TRUE
                        /\ cyc' = [cyc EXCEPT
                                     ![c] = [EnterFetch(c, "initial") EXCEPT
                                               !.cacheRead = offlineTasks,
                                               !.sets = @ + 1]]
                   ELSE /\ UNCHANGED <<allTasks, sigEffectPending>>
                        /\ cyc' = [cyc EXCEPT ![c] = EnterFetch(c, "initial")]
          ELSE /\ cyc' = [cyc EXCEPT ![c] = EnterFetch(c, "retry")]
               /\ UNCHANGED <<allTasks, sigEffectPending>>
  /\ isLoadingAllTasks' = TRUE
  /\ errorLoadingAllTasks' = "null"
  /\ UNCHANGED <<mounted, devMode, currentTasksSignature, effectSig, idb,
                 listeners, inbox, workerErrors, sigVars, wkVars, appVars>>

\* what getAllTasksFromKV may give: the tasks of the store in the order
\* SCAN gives the keys, an error result, or a failed request
FetchReplies ==
  UNION {[type : {"data"}, data : PermutationsOf(toArray(r))] :
           r \in StoreContents}
    \cup [type : {"error", "throw"}, data : {<<>>}]

\* FetchReturn without the setErrorLoadingAllTasks of the result.error
\* branch
FetchReturnSilent(c) ==
  /\ cyc[c].pc = "fetch"
  /\ \E r \in FetchReplies :
       CASE r.type = "throw" ->
              /\ errorLoadingAllTasks' = "threw"
              /\ cyc' = [cyc EXCEPT ![c].pc = "catchRead", ![c].reply = r]
              /\ UNCHANGED <<listeners, inbox>>
         [] r.type = "error" ->
              /\ cyc' = [cyc EXCEPT ![c].pc = "errRead", ![c].reply = r]
              /\ UNCHANGED <<listeners, inbox, errorLoadingAllTasks>>
         [] OTHER ->
              /\ listeners' = Append(listeners, c)
              /\ inbox' = Append(inbox, [data |-> r.data, tag |-> c])
              /\ cyc' = [cyc EXCEPT ![c].pc = "awaitSig", ![c].reply = r,
                                    ![c].sigRequests = @ + 1]
              /\ UNCHANGED errorLoadingAllTasks
  /\ UNCHANGED <<mounted, devMode, allTasks, isLoadingAllTasks,
                 currentTasksSignature, sigEffectPending, effectSig, idb,
                 idbFailures, workerErrors, sigVars, wkVars, appVars>>

\* fetchAllTasksFromServer resumes from getAllTasksFromKV.  The adapter
\* gives data or a non-empty error, and the worker exists once mounted, so
\* the branches for neither and for no worker are never taken.
FetchReturn(c) ==
  /\ cyc[c].pc = "fetch"
  /\ \E r \in FetchReplies :
       CASE r.type = "throw" ->
              /\ errorLoadingAllTasks' = "threw"
              /\ cyc' = [cyc EXCEPT ![c].pc = "catchRead", ![c].reply = r]
              /\ UNCHANGED <<listeners, inbox>>
         [] r.type = "error" ->
              /\ errorLoadingAllTasks' = "server-error"
              /\ cyc' = [cyc EXCEPT ![c].pc = "errRead", ![c].reply = r]
              /\ UNCHANGED <<listeners, inbox>>
         [] OTHER ->
              /\ listeners' = Append(listeners, c)
              /\ inbox' = Append(inbox, [data |-> r.data, tag |-> c])
              /\ cyc' = [cyc EXCEPT ![c].pc = "awaitSig", ![c].reply = r,
                                    ![c].sigRequests = @ + 1]
              /\ UNCHANGED errorLoadingAllTasks
  /\ UNCHANGED <<mounted, devMode, allTasks, isLoadingAllTasks,
                 currentTasksSignature, sigEffectPending, effectSig, idb,
                 idbFailures, workerErrors, sigVars, wkVars, appVars>>

\* fetchAllTasksFromServer resumes from the toArray of the result.error
\* branch; a failure lands in the catch block
ErrRead(c) ==
  /\ cyc[c].pc = "errRead"
  /\ \E ok \in IdbOutcomes :
       /\ idbFailures' = IF ok THEN idbFailures ELSE idbFailures + 1
       /\ IF ok
          THEN /\ allTasks' = toArray(idb)
               /\ sigEffectPending' = TRUE
               /\ isLoadingAllTasks' = FALSE
               /\ cyc' = [cyc EXCEPT ![c].pc = "done", ![c].sets = @ + 1]
               /\ UNCHANGED errorLoadingAllTasks
          ELSE /\ errorLoadingAllTasks' = "idb-error"
               /\ cyc' = [cyc EXCEPT ![c].pc = "catchRead"]
               /\ UNCHANGED <<allTasks, sigEffectPending, isLoadingAllTasks>>
  /\ UNCHANGED <<mounted, devMode, currentTasksSignature, effectSig, idb,
                 listeners, inbox, workerErrors, sigVars, wkVars, appVars>>

\* fetchAllTasksFromServer resumes from the toArray of the catch block; a
\* failure there rejects the call.  loadInitialData catches the rejection
\* of its first call and calls fetchAllTasksFromServer once more.
CatchRead(c) ==
  /\ cyc[c].pc = "catchRead"
  /\ \E ok \in IdbOutcomes :
       /\ idbFailures' = IF ok THEN idbFailures ELSE idbFailures + 1
       /\ IF ok
          THEN /\ allTasks' = toArray(idb)
               /\ sigEffectPending' = TRUE
               /\ isLoadingAllTasks' = FALSE
               /\ cyc' = [cyc EXCEPT ![c].pc = "done", ![c].sets = @ + 1]
               /\ UNCHANGED errorLoadingAllTasks
          ELSE IF cyc[c].kind = "initial"
               THEN /\ cyc' = [cyc EXCEPT ![c] = EnterFetch(c, "retry")]
                    /\ isLoadingAllTasks' = TRUE
                    /\ errorLoadingAllTasks' = "null"
                    /\ UNCHANGED <<allTasks, sigEffectPending>>
               ELSE /\ cyc' = [cyc EXCEPT ![c].pc = "rejected"]
                    /\ isLoadingAllTasks' = FALSE
                    /\ UNCHANGED <<allTasks, sigEffectPending,
                                   errorLoadingAllTasks>>
  /\ UNCHANGED <<mounted, devMode, currentTasksSignature, effectSig, idb,
                 listeners, inbox, workerErrors, sigVars, wkVars, appVars>>

\* A message event of the worker, the answer to the oldest array posted:
\* the generic onmessage stores the data as currentTasksSignature, and
\* every tempWorkerListener removes itself and resolves its promise with
\* the data; each awaiting cycle then compares the data with the signature
\* it closed over and either calls setAllTasks and db.tasks.clear(), or
\* returns.
WorkerMessage ==
  /\ inbox /= <<>>
  /\ LET data == SimpleSignature(Head(inbox).data)
         tag == Head(inbox).tag
         Adopts(c) == cyc[c].closureSig /= data
         adopters == SelectSeq(listeners, Adopts)
     IN  /\ currentTasksSignature' = data
         /\ IF adopters /= <<>>
            THEN /\ allTasks' = cyc[adopters[Len(adopters)]].reply.data
                 /\ sigEffectPending' = TRUE
            ELSE UNCHANGED <<allTasks, sigEffectPending>>
         /\ isLoadingAllTasks' =
              IF Len(adopters) < Len(listeners) THEN FALSE
              ELSE isLoadingAllTasks
         /\ cyc' =
              [c \in DOMAIN cyc |->
                 IF c \notin Range(listeners) THEN cyc[c]
                 ELSE IF Adopts(c)
                      THEN [cyc[c] EXCEPT !.pc = "clear", !.sets = @ + 1,
                                          !.adopted = TRUE, !.sigFrom = tag]
                      ELSE [cyc[c] EXCEPT !.pc = "done", !.sigFrom = tag]]
  /\ listeners' = <<>>
  /\ inbox' = Tail(inbox)
  /\ UNCHANGED <<mounted, devMode, errorLoadingAllTasks, effectSig, idb,
                 idbFailures, workerErrors, sigVars, wkVars, appVars>>

\* An error event of the worker, failing on the oldest array posted:
\* onerror logs it, every tempErrorListener removes itself and rejects its
\* promise; catch (workerError) logs and the cycle returns.
WorkerError ==
  /\ inbox /= <<>>
  /\ workerErrors < MaxWorkerErrors
  /\ workerErrors' = workerErrors + 1
  /\ cyc' =
       [c \in DOMAIN cyc |->
          IF c \in Range(listeners)
          THEN [cyc[c] EXCEPT !.pc = "done", !.sigFailed = TRUE]
          ELSE cyc[c]]
  /\ isLoadingAllTasks' = IF listeners /= <<>> THEN FALSE ELSE isLoadingAllTasks
  /\ listeners' = <<>>
  /\ inbox' = Tail(inbox)
  /\ UNCHANGED <<mounted, devMode, allTasks, errorLoadingAllTasks,
                 currentTasksSignature, sigEffectPending, effectSig, idb,
                 idbFailures, sigVars, wkVars, appVars>>

\* fetchAllTasksFromServer resumes from db.tasks.clear(); a failure is
\* caught by catch (workerError)
ClearDone(c) ==
  /\ cyc[c].pc = "clear"
  /\ \E ok \in IdbOutcomes :
       /\ idbFailures' = IF ok THEN idbFailures ELSE idbFailures + 1
       /\ IF ok
          THEN /\ idb' = {}
               /\ cyc' = [cyc EXCEPT ![c].pc = "bulkPut", ![c].writes = @ + 1]
               /\ UNCHANGED isLoadingAllTasks
          ELSE /\ cyc' = [cyc EXCEPT ![c].pc = "done"]
               /\ isLoadingAllTasks' = FALSE
               /\ UNCHANGED idb
  /\ UNCHANGED <<mounted, devMode, allTasks, errorLoadingAllTasks,
                 currentTasksSignature, sigEffectPending, effectSig,
                 listeners, inbox, workerErrors, sigVars, wkVars, appVars>>

\* BulkPutDone writing the tasks read from the cache at mount in place of
\* the fetched ones
BulkPutDoneOffline(c) ==
  /\ cyc[c].pc = "bulkPut"
  /\ \E ok \in IdbOutcomes :
       /\ idbFailures' = IF ok THEN idbFailures ELSE idbFailures + 1
       /\ IF ok
          THEN /\ idb' = bulkPut(idb, cyc[c].cacheRead)
               /\ cyc' = [cyc EXCEPT ![c].pc = "done", ![c].writes = @ + 1]
          ELSE /\ cyc' = [cyc EXCEPT ![c].pc = "done"]
               /\ UNCHANGED idb
  /\ isLoadingAllTasks' = FALSE
  /\ UNCHANGED <<mounted, devMode, allTasks, errorLoadingAllTasks,
                 currentTasksSignature, sigEffectPending, effectSig,
                 listeners, inbox, workerErrors, sigVars, wkVars, appVars>>

\* fetchAllTasksFromServer resumes from db.tasks.bulkPut(fetchedDataSafe)
BulkPutDone(c) ==
  /\ cyc[c].pc = "bulkPut"
  /\ \E ok \in IdbOutcomes :
       /\ idbFailures' = IF ok THEN idbFailures ELSE idbFailures + 1
       /\ IF ok
          THEN /\ idb' = bulkPut(idb, cyc[c].reply.data)
               /\ cyc' = [cyc EXCEPT ![c].pc = "done", ![c].writes = @ + 1]
          ELSE /\ cyc' = [cyc EXCEPT ![c].pc = "done"]
               /\ UNCHANGED idb
  /\ isLoadingAllTasks' = FALSE
  /\ UNCHANGED <<mounted, devMode, allTasks, errorLoadingAllTasks,
                 currentTasksSignature, sigEffectPending, effectSig,
                 listeners, inbox, workerErrors, sigVars, wkVars, appVars>>

\* the effect on [allTasks], run after a render that changed allTasks
SignatureEffect ==
  /\ sigEffectPending
  /\ sigEffectPending' = FALSE
  /\ IF Len(allTasks) > 0
     THEN /\ inbox' = Append(inbox, [data |-> allTasks, tag |-> 0])
          /\ UNCHANGED currentTasksSignature
     ELSE /\ currentTasksSignature' = JsonString(<<>>)
          /\ UNCHANGED inbox
  /\ UNCHANGED <<mounted, devMode, allTasks, isLoadingAllTasks,
                 errorLoadingAllTasks, effectSig, idb, idbFailures, cyc,
                 listeners, workerErrors, sigVars, wkVars, appVars>>

\* allTasks.find((task) => task.id === id) on an array of tasks
FindTask(tasks, id) ==
  IF \E i \in DOMAIN tasks : tasks[i].id = id
  THEN tasks[CHOOSE i \in DOMAIN tasks :
               tasks[i].id = id /\ \A j \in 1..(i - 1) : tasks[j].id /= id]
  ELSE Undefined

getTaskById(id) == FindTask(allTasks, id)

Next ==
  \/ Mount
  \/ InitialLoadEffect
  \/ Resync
  \/ \E c \in DOMAIN cyc : InitRead(c)
  \/ \E c \in DOMAIN cyc : FetchReturn(c)
  \/ \E c \in DOMAIN cyc : ErrRead(c)
  \/ \E c \in DOMAIN cyc : CatchRead(c)
  \/ WorkerMessage
  \/ WorkerError
  \/ \E c \in DOMAIN cyc : ClearDone(c)
  \/ \E c \in DOMAIN cyc : BulkPutDone(c)
  \/ SignatureEffect

Init == ProviderInit /\ SigIdle /\ WorkerIdle /\ AppIdle

Spec == Init /\ [][Next]_vars

(***************************************************************************)
(* SpecDebounced: the initial load of the debounced variant of             *)
(* TasksProvider, which reads the cache and the remote store together and  *)
(* does not call fetchAllTasksFromServer.  The page makes no call of its   *)
(* own.  The signature effect is debounced: SignatureEffect is the         *)
(* debounced function running with the latest allTasks.  A cycle of kind   *)
(* "debounced" is at pc                                                    *)
(*   loadAll    await Promise.all([db.tasks.toArray(), getAllTasksFromKV()])*)
(*   clear      await db.tasks.clear()                                     *)
(*   bulkPut    await db.tasks.bulkPut(fetchedDataSafe)                    *)
(*   done       the function has returned                                  *)
(***************************************************************************)
\* the effects of the first commit: the worker is created, the signature
\* effect arms the debounce, the initial-load effect starts loadInitialData
DebouncedMount ==
  /\ ~mounted
  /\ mounted' = TRUE
  /\ cyc' = <<NewCycle("debounced", "loadAll", 1)>>
  /\ effectSig' = currentTasksSignature
  /\ sigEffectPending' = TRUE
  /\ isLoadingAllTasks' = TRUE
  /\ UNCHANGED <<devMode, allTasks, errorLoadingAllTasks,
                 currentTasksSignature, idb, idbFailures, listeners, inbox,
                 workerErrors, sigVars, wkVars, appVars>>

\* the initial-load effect runs again for a new fetchAllTasksFromServer
DebouncedLoadEffect ==
  /\ mounted /\ ~devMode
  /\ effectSig /= currentTasksSignature
  /\ Len(cyc) < MaxCycles
  /\ cyc' = Append(cyc, NewCycle("debounced", "loadAll", 1))
  /\ effectSig' = currentTasksSignature
  /\ isLoadingAllTasks' = TRUE
  /\ UNCHANGED <<mounted, devMode, allTasks, errorLoadingAllTasks,
                 currentTasksSignature, sigEffectPending, idb, idbFailures,
                 listeners, inbox, workerErrors, sigVars, wkVars, appVars>>

\* the catch block of the debounced loadInitialData
DebouncedCatch(c) ==
  /\ errorLoadingAllTasks' = "threw"
  /\ allTasks' = <<>>
  /\ sigEffectPending' = TRUE
  /\ cyc' = [cyc EXCEPT ![c].pc = "done", ![c].sets = @ + 1]

\* loadInitialData resumes from Promise.all: it paints the cache, then
\* sets the fetched data without comparing and starts writing the cache
DebouncedLoad(c) ==
  /\ cyc[c].kind = "debounced" /\ cyc[c].pc = "loadAll"
  /\ \E ok \in IdbOutcomes, r \in FetchReplies :
       /\ idbFailures' = IF ok THEN idbFailures ELSE idbFailures + 1
       /\ IF ~ok \/ r.type = "throw"
          THEN DebouncedCatch(c)
          ELSE LET offlineTasks == toArray(idb)
                   painted == IF Len(offlineTasks) > 0 THEN 1 ELSE 0
               IN  IF r.type = "error"
                   THEN /\ errorLoadingAllTasks' = "server-error"
                        /\ allTasks' = offlineTasks
                        /\ sigEffectPending' = TRUE
                        /\ cyc' = [cyc EXCEPT
                                     ![c].pc = "done", ![c].reply = r,
                                     ![c].cacheRead = offlineTasks,
                                     ![c].sets = @ + 1]
                   ELSE /\ allTasks' = r.data
                        /\ sigEffectPending' = TRUE
                        /\ cyc' = [cyc EXCEPT
                                     ![c].pc = "clear", ![c].reply = r,
                                     ![c].cacheRead = offlineTasks,
                                     ![c].sets = @ + painted + 1,
                                     ![c].adopted = TRUE]
                        /\ UNCHANGED errorLoadingAllTasks
  /\ UNCHANGED <<mounted, devMode, isLoadingAllTasks, currentTasksSignature,
                 effectSig, idb, listeners, inbox, workerErrors, sigVars,
                 wkVars, appVars>>

\* loadInitialData resumes from db.tasks.clear()
DebouncedClearDone(c) ==
  /\ cyc[c].kind = "debounced" /\ cyc[c].pc = "clear"
  /\ \E ok \in IdbOutcomes :
       /\ idbFailures' = IF ok THEN idbFailures ELSE idbFailures + 1
       /\ IF ok
          THEN /\ idb' = {}
               /\ cyc' = [cyc EXCEPT ![c].pc = "bulkPut", ![c].writes = @ + 1]
               /\ UNCHANGED <<allTasks, sigEffectPending,
                              errorLoadingAllTasks>>
          ELSE /\ DebouncedCatch(c)
               /\ UNCHANGED idb
  /\ UNCHANGED <<mounted, devMode, isLoadingAllTasks, currentTasksSignature,
                 effectSig, listeners, inbox, workerErrors, sigVars, wkVars, appVars>>

\* loadInitialData resumes from db.tasks.bulkPut(fetchedDataSafe)
DebouncedBulkPutDone(c) ==
  /\ cyc[c].kind = "debounced" /\ cyc[c].pc = "bulkPut"
  /\ \E ok \in IdbOutcomes :
       /\ idbFailures' = IF ok THEN idbFailures ELSE idbFailures + 1
       /\ IF ok
          THEN /\ idb' = bulkPut(idb, cyc[c].reply.data)
               /\ cyc' = [cyc EXCEPT ![c].pc = "done", ![c].writes = @ + 1]
               /\ UNCHANGED <<allTasks, sigEffectPending,
                              errorLoadingAllTasks>>
          ELSE /\ DebouncedCatch(c)
               /\ UNCHANGED idb
  /\ UNCHANGED <<mounted, devMode, isLoadingAllTasks, currentTasksSignature,
                 effectSig, listeners, inbox, workerErrors, sigVars, wkVars, appVars>>

DebouncedNext ==
  \/ DebouncedMount
  \/ DebouncedLoadEffect
  \/ \E c \in DOMAIN cyc : DebouncedLoad(c)
  \/ \E c \in DOMAIN cyc : DebouncedClearDone(c)
  \/ \E c \in DOMAIN cyc : DebouncedBulkPutDone(c)
  \/ WorkerMessage
  \/ WorkerError
  \/ SignatureEffect

SpecDebounced == Init /\ [][DebouncedNext]_vars

(***************************************************************************)
(* SpecStore and SpecFetch: the server actions of app/_lib/actions.ts on   *)
(* the remote store (Upstash Redis).  redis maps the identifier in a key   *)
(* task:<id> to the value stored under it; a task is stored as its JSON    *)
(* text, in which a Date is an ISO string.  serverNow is what new Date()   *)
(* gives on the server.  An action that awaits one command of the store is *)
(* one step; a failed command throws and the action returns its error      *)
(* result.  lastOp is the action that returned last: its name, the         *)
(* identifiers it was about and whether its result has error: null.        *)
(***************************************************************************)
\* identifiers customAlphabet("0123456789", 4) may draw
MaxStoreIds == 2
StoreIds == 1..MaxStoreIds
\* how far the server's clock advances
MaxNow == 2
\* tasks one call of seedTasksToRedis generates
MaxSeed == 1
\* the statuses the inputs of the actions carry
InputStatuses == {"todo", "done"}

\* new Date(value)
NewDate(d) ==
  CASE d.k \in {"Date", "iso"} -> DateObj(d.ms)
    [] OTHER -> InvalidDate

\* a Date as JSON.stringify prints it
DateToJSON(d) == IF d.k = "Date" THEN IsoStr(d.ms) ELSE d

\* JSON.stringify(task), read back by the client of the store
Stringify(task) ==
  [task EXCEPT !.createdAt = DateToJSON(@), !.updatedAt = DateToJSON(@)]

\* a task with its two timestamps as Date objects
StoreTask(id, status, createdAt, updatedAt) ==
  [Task(id, status, DateObj(updatedAt)) EXCEPT
     !.createdAt = DateObj(createdAt), !.estimatedHours = 0]

\* redis.set(key, value)
RedisSet(store, key, value) ==
  [k \in DOMAIN store \cup {key} |-> IF k = key THEN value ELSE store[k]]

\* redis.del(...keys)
RedisDel(store, keys) == [k \in DOMAIN store \ keys |-> store[k]]

\* a command that changes the store while a call of getAllTasksFromKV is
\* in progress or has returned
Disturb == [kv EXCEPT !.disturbed = @ \/ kv.pc /= "idle"]

StoreInit ==
  /\ redis = EmptyStore
  /\ serverNow = 0
  /\ kv = NoCall
  /\ lastOp = NoOp
  /\ SessionIdle /\ UiIdle /\ ExIdle
  /\ SigIdle /\ WorkerIdle /\ ProviderIdle

\* createTask: the identifier is drawn at random, redis.set stores the task
createTask ==
  \E id \in StoreIds, status \in InputStatuses, ok \in BOOLEAN :
    LET newTask == StoreTask(id, status, serverNow, serverNow)
    IN  /\ redis' = IF ok THEN RedisSet(redis, id, Stringify(newTask))
                    ELSE redis
        /\ kv' = IF ok THEN Disturb ELSE kv
        /\ lastOp' = [op |-> "createTask", ids |-> {id}, ok |-> ok]
        /\ UNCHANGED <<serverNow, providers, workers, ui, exVars, sigVars, wkVars,
                       coVars>>

\* the task updateTask and updateTasks write for a stored task and a status
\* of the input ("undefined": the input has no status)
UpdatedTask(stored, status) ==
  LET existingTask ==
        [stored EXCEPT !.createdAt = NewDate(@), !.updatedAt = NewDate(@)]
      hasActualChanges == status /= "undefined" /\ status /= stored.status
  IN  [changed |-> hasActualChanges,
       task |-> IF hasActualChanges
                THEN [existingTask EXCEPT !.status = status,
                                          !.updatedAt = DateObj(serverNow)]
                ELSE existingTask]

\* updateTask: redis.get, then redis.set when a field of the input differs
updateTask ==
  \E id \in StoreIds, status \in InputStatuses \cup {"undefined"},
     ok \in BOOLEAN :
    /\ IF ok /\ id \in DOMAIN redis
       THEN LET u == UpdatedTask(redis[id], status)
            IN  /\ redis' = IF u.changed
                            THEN RedisSet(redis, id, Stringify(u.task))
                            ELSE redis
                /\ kv' = IF u.changed THEN Disturb ELSE kv
                /\ lastOp' = [op |-> "updateTask", ids |-> {id}, ok |-> TRUE]
       ELSE /\ lastOp' = [op |-> "updateTask", ids |-> {id}, ok |-> FALSE]
            /\ UNCHANGED <<redis, kv>>
    /\ UNCHANGED <<serverNow, providers, workers, ui, exVars, sigVars, wkVars,
                   coVars>>

\* updateTasks: redis.mget, then one pipeline of the changed tasks; keys
\* with no value are passed over
updateTasks ==
  \E ids \in SUBSET StoreIds, status \in InputStatuses \cup {"undefined"},
     ok \in BOOLEAN :
    /\ IF ok
       THEN LET found == ids \cap DOMAIN redis
                changed ==
                  {id \in found : UpdatedTask(redis[id], status).changed}
            IN  /\ redis' =
                     [k \in DOMAIN redis |->
                        IF k \in changed
                        THEN Stringify(UpdatedTask(redis[k], status).task)
                        ELSE redis[k]]
                /\ kv' = IF changed /= {} THEN Disturb ELSE kv
       ELSE UNCHANGED <<redis, kv>>
    /\ lastOp' = [op |-> "updateTasks", ids |-> ids, ok |-> ok]
    /\ UNCHANGED <<serverNow, providers, workers, ui, exVars, sigVars, wkVars,
                   coVars>>

\* deleteTask: redis.del gives the number of keys removed
deleteTask ==
  \E id \in StoreIds, ok \in BOOLEAN :
    /\ IF ok /\ id \in DOMAIN redis
       THEN /\ redis' = RedisDel(redis, {id})
            /\ kv' = Disturb
            /\ lastOp' = [op |-> "deleteTask", ids |-> {id}, ok |-> TRUE]
       ELSE /\ lastOp' = [op |-> "deleteTask", ids |-> {id}, ok |-> FALSE]
            /\ UNCHANGED <<redis, kv>>
    /\ UNCHANGED <<serverNow, providers, workers, ui, exVars, sigVars, wkVars,
                   coVars>>

\* generateRandomTaskForProject: a random identifier and status, createdAt
\* within the last 30 days, updatedAt within the last 10 days
generateRandomTaskForProject ==
  {StoreTask(id, status, createdAt, updatedAt) :
     id \in StoreIds, status \in InputStatuses,
     createdAt \in 0..serverNow, updatedAt \in 0..serverNow}

\* the store after the pipeline of seedTasksToRedis has set the tasks from
\* the i-th on
RECURSIVE PipelineSet(_, _, _)
PipelineSet(store, tasks, i) ==
  IF i > Len(tasks) THEN store
  ELSE PipelineSet(RedisSet(store, tasks[i].id, Stringify(tasks[i])),
                   tasks, i + 1)

\* seedTasksToRedis: the task:* keys are deleted, then the generated tasks
\* are set; a command may fail before the deletion or after it
seedTasksToRedis ==
  /\ \/ \E count \in 0..MaxSeed :
          \E newTasks \in [1..count -> generateRandomTaskForProject] :
            /\ redis' = PipelineSet(EmptyStore, newTasks, 1)
            /\ kv' = Disturb
            /\ lastOp' = [op |-> "seedTasksToRedis",
                          ids |-> {newTasks[i].id : i \in 1..count},
                          ok |-> TRUE]
     \/ \E deleted \in BOOLEAN :
          /\ redis' = IF deleted THEN EmptyStore ELSE redis
          /\ kv' = IF deleted THEN Disturb ELSE kv
          /\ lastOp' = [op |-> "seedTasksToRedis", ids |-> {}, ok |-> FALSE]
  /\ UNCHANGED <<serverNow, providers, workers, ui, exVars, sigVars, wkVars, coVars>>

\* time passes on the server
StoreTick ==
  /\ serverNow < MaxNow
  /\ serverNow' = serverNow + 1
  /\ UNCHANGED <<redis, kv, lastOp, providers, workers, ui, exVars, sigVars, wkVars,
                 coVars>>

StoreNext ==
  \/ createTask
  \/ updateTask
  \/ updateTasks
  \/ deleteTask
  \/ seedTasksToRedis
  \/ StoreTick

SpecStore == StoreInit /\ [][StoreNext]_vars

(***************************************************************************)
(* getAllTasksFromKV, one awaited command of the store per step: ping,     *)
(* scan, mget.  kv.pc is the command the call awaits, kv.keys the keys the *)
(* scan gave; once the call has returned, hasData, data and error are its  *)
(* result (error "null" is null).  disturbed tells that the store was      *)
(* changed by another action since the call began.                         *)
(***************************************************************************)
KvError(message) ==
  [kv EXCEPT !.pc = "returned", !.hasData = FALSE, !.data = <<>>,
             !.error = message]

\* ScanKeys reading one page of the scan only
ScanKeysFirstPage(store) ==
  {s \in DistinctSeqs(DOMAIN store, 1) :
     Len(s) = IF DOMAIN store = {} THEN 0 ELSE 1}

\* the key lists the SCAN loop may collect: every key, in any order
ScanKeys(store) == {s \in DistinctSeqs(DOMAIN store, Cardinality(DOMAIN store)) :
                      Len(s) = Cardinality(DOMAIN store)}

\* getAllTasksFromKV is called
KvCall ==
  /\ kv.pc \in {"idle", "returned"}
  /\ kv' = [NoCall EXCEPT !.pc = "ping"]
  /\ UNCHANGED <<redis, serverNow, lastOp, providers, workers, ui, exVars, sigVars,
                 wkVars, coVars>>

\* await redis.ping()
KvPing ==
  /\ kv.pc = "ping"
  /\ \E ok \in BOOLEAN :
       kv' = IF ok THEN [kv EXCEPT !.pc = "scan"]
             ELSE KvError("Failed to connect to Redis")
  /\ UNCHANGED <<redis, serverNow, lastOp, providers, workers, ui, exVars, sigVars,
                 wkVars, coVars>>

\* the loop of redis.scan
KvScan ==
  /\ kv.pc = "scan"
  /\ \E ok \in BOOLEAN, taskKeys \in ScanKeys(redis) :
       kv' = IF ~ok THEN KvError("Failed to retrieve task keys")
             ELSE IF Len(taskKeys) = 0
                  THEN [kv EXCEPT !.pc = "returned", !.hasData = TRUE,
                                  !.data = <<>>, !.error = "null"]
                  ELSE [kv EXCEPT !.pc = "mget", !.keys = taskKeys]
  /\ UNCHANGED <<redis, serverNow, lastOp, providers, workers, ui, exVars, sigVars,
                 wkVars, coVars>>

\* await redis.mget(...taskKeys): the values of the keys still there
KvMget ==
  /\ kv.pc = "mget"
  /\ \E ok \in BOOLEAN :
       LET Present(k) == k \in DOMAIN redis
           validKeys == SelectSeq(kv.keys, Present)
       IN  kv' = IF ~ok THEN KvError("Failed to retrieve task data")
                 ELSE [kv EXCEPT !.pc = "returned", !.hasData = TRUE,
                                 !.data = [i \in DOMAIN validKeys |->
                                             redis[validKeys[i]]],
                                 !.error = "null"]
  /\ UNCHANGED <<redis, serverNow, lastOp, providers, workers, ui, exVars, sigVars,
                 wkVars, coVars>>

FetchNext ==
  \/ KvCall
  \/ KvPing
  \/ KvScan
  \/ KvMget
  \/ createTask
  \/ updateTask
  \/ deleteTask
  \/ StoreTick

SpecFetch == StoreInit /\ [][FetchNext]_vars

(***************************************************************************)
(* The application session: RootLayout and IndexPage each render a        *)
(* TasksProvider, the second inside the first.  Every provider instance   *)
(* has its own workerRef and its own worker-initialisation effect.        *)
(***************************************************************************)
MaxWorkers == 3
MaxRequests == 2

\* the places that render <TasksProvider>
ProviderNames == {"layout", "page"}

\* React.useRef<Worker | null>(null): 0 stands for null
Unmounted == [mounted |-> FALSE, workerRef |-> 0]

\* new Worker(new URL("../workers/task-processor.worker.ts", ...))
NewWorker(p) == [owner |-> p, alive |-> TRUE, requests |-> 0]

SessionInit ==
  /\ providers = [p \in ProviderNames |-> Unmounted]
  /\ workers = <<>>
  /\ StoreIdle /\ UiIdle /\ ExIdle
  /\ SigIdle /\ WorkerIdle /\ ProviderIdle

\* the effect with no dependencies runs when the instance mounts
ProviderMount(p) ==
  /\ ~providers[p].mounted
  /\ Len(workers) < MaxWorkers
  /\ workers' = Append(workers, NewWorker(p))
  /\ providers' = [providers EXCEPT ![p] =
                     [mounted |-> TRUE, workerRef |-> Len(workers) + 1]]
  /\ UNCHANGED <<stVars, ui, exVars, sigVars, wkVars, coVars>>

\* workerRef.current.postMessage(...) of the instance's effects
PostSignatureRequest(p) ==
  /\ providers[p].mounted
  /\ providers[p].workerRef /= 0
  /\ workers[providers[p].workerRef].requests < MaxRequests
  /\ workers' = [workers EXCEPT ![providers[p].workerRef].requests = @ + 1]
  /\ UNCHANGED <<providers, stVars, ui, exVars, sigVars, wkVars, coVars>>

\* the cleanup of the effect: workerRef.current?.terminate()
ProviderUnmount(p) ==
  /\ providers[p].mounted
  /\ workers' = IF providers[p].workerRef = 0 THEN workers
                ELSE [workers EXCEPT ![providers[p].workerRef].alive = FALSE]
  /\ providers' = [providers EXCEPT ![p].mounted = FALSE]
  /\ UNCHANGED <<stVars, ui, exVars, sigVars, wkVars, coVars>>

SessionNext ==
  \E p \in ProviderNames :
    \/ ProviderMount(p)
    \/ PostSignatureRequest(p)
    \/ ProviderUnmount(p)

SpecSession == SessionInit /\ [][SessionNext]_vars

(***************************************************************************)
(* The row actions of the table: the label menu of a row and the delete   *)
(* dialog.  Each started handler is one record of ui; refreshed tells     *)
(* whether it has called refreshTableData / fetchAllTasksFromServer.      *)
(***************************************************************************)
MaxMutations == 3

\* what the awaited server action gave: updateTask of part_004 returns the
\* task ("data"), the one of _lib/actions.ts returns data: null ("nodata")
LabelResults == {"data", "nodata", "error"}
DeleteResults == {"ok", "error"}

Handler(op) == [op |-> op, pc |-> "server", result |-> "none",
                refreshed |-> FALSE]

UiInit ==
  /\ ui = <<>>
  /\ StoreIdle /\ SessionIdle /\ ExIdle
  /\ SigIdle /\ WorkerIdle /\ ProviderIdle

\* onValueChange of the label menu: toast.promise(updateTask({...}).then(...))
StartLabelUpdate ==
  /\ Len(ui) < MaxMutations
  /\ ui' = Append(ui, Handler("label"))
  /\ UNCHANGED <<stVars, providers, workers, exVars, sigVars, wkVars, coVars>>

\* onDelete of the dialog: await deleteTask / deleteTasks
StartDelete ==
  /\ Len(ui) < MaxMutations
  /\ ui' = Append(ui, Handler("delete"))
  /\ UNCHANGED <<stVars, providers, workers, exVars, sigVars, wkVars, coVars>>

\* the server action returns: the label handler goes on to db.tasks.put
\* only with data and no error, the delete handler returns on an error
ServerReturns(i) ==
  /\ ui[i].pc = "server"
  /\ \E r \in IF ui[i].op = "label" THEN LabelResults ELSE DeleteResults :
       ui' = [ui EXCEPT ![i].result = r,
                        ![i].pc = IF r \in {"data", "ok"} THEN "local"
                                  ELSE "finished"]
  /\ UNCHANGED <<stVars, providers, workers, exVars, sigVars, wkVars, coVars>>

\* await db.tasks.put(result.data) / await db.tasks.bulkDelete(ids): a
\* rejected put ends the label handler, the delete handler calls onSuccess
\* in the try block and in the catch block
LocalWrite(i) ==
  /\ ui[i].pc = "local"
  /\ \E ok \in BOOLEAN :
       ui' = [ui EXCEPT ![i].pc = IF ok \/ ui[i].op = "delete"
                                  THEN "refresh" ELSE "finished"]
  /\ UNCHANGED <<stVars, providers, workers, exVars, sigVars, wkVars, coVars>>

\* await refreshTableData() / onSuccess(): fetchAllTasksFromServer()
Refresh(i) ==
  /\ ui[i].pc = "refresh"
  /\ ui' = [ui EXCEPT ![i].refreshed = TRUE, ![i].pc = "finished"]
  /\ UNCHANGED <<stVars, providers, workers, exVars, sigVars, wkVars, coVars>>

UiNext ==
  \/ StartLabelUpdate
  \/ StartDelete
  \/ \E i \in DOMAIN ui : ServerReturns(i)
  \/ \E i \in DOMAIN ui : LocalWrite(i)
  \/ \E i \in DOMAIN ui : Refresh(i)

SpecUI == UiInit /\ [][UiNext]_vars

(***************************************************************************)
(* SpecRetry: the TasksProvider variant with retry of the initial load     *)
(* (stores/task-store.tsx, first variant).  retry holds the state of the   *)
(* provider and of the run of loadInitialData in progress:                 *)
(*   pc         effect: the initial-load effect is about to run            *)
(*              fetch: await getAllTasksFromKV()                           *)
(*              errRead: await db.tasks.toArray() after result.error       *)
(*              clear, bulkPut: the writes of the cache                    *)
(*              catchRead: await db.tasks.toArray() in the catch block     *)
(*              settled: the promise of fetchAllTasksFromServer settled    *)
(*              finished: loadInitialData has returned                     *)
(*   attempts   the runs of loadInitialData so far                         *)
(*   failed     the load from the server of this run failed                *)
(*   rejected   the promise of fetchAllTasksFromServer was rejected        *)
(*   timer      the time the retry timeout is due at, -1 when none is set  *)
(*   time       the milliseconds since the mount                           *)
(*   cache      what db.tasks holds: "empty", the tasks an earlier session *)
(*              left ("old"), or the fetched ones ("fetched")              *)
(*   allTasks   what setAllTasks was last called with                      *)
(***************************************************************************)
MAX_RETRIES == 3
MaxRetryTime == 4000
TickMs == 1000

\* Math.min(1000 * Math.pow(2, retryCount), 10000)
RetryDelay(retryCount) ==
  IF 1000 * 2 ^ retryCount < 10000 THEN 1000 * 2 ^ retryCount ELSE 10000

\* what getAllTasksFromKV gives the provider: data, an error result, or a
\* rejected call
RetryReplies == {"data", "error", "throw"}

RetryInit ==
  /\ retry \in [pc : {"effect"}, attempts : {0}, retryCount : {0},
               failed : {FALSE}, rejected : {FALSE}, timer : {-1},
               time : {0}, error : {FALSE}, isLoading : {TRUE},
               cache : {"empty", "old"}, allTasks : {"empty"}]
  /\ hook = <<>> /\ sync = <<>> /\ query = <<>>
  /\ StoreIdle /\ SessionIdle /\ UiIdle
  /\ SigIdle /\ WorkerIdle /\ ProviderIdle

RetryUnchanged ==
  UNCHANGED <<hook, sync, query, stVars, providers, workers, ui, sigVars,
              wkVars, coVars>>

\* the effect on [fetchAllTasksFromServer, retryCount]: the cleanup of the
\* run before clears its timeout, loadInitialData calls
\* fetchAllTasksFromServer
RetryEffect ==
  /\ retry.pc = "effect"
  /\ retry' = [retry EXCEPT !.pc = "fetch", !.attempts = @ + 1,
                            !.failed = FALSE, !.rejected = FALSE,
                            !.timer = -1, !.error = FALSE,
                            !.isLoading = TRUE]
  /\ RetryUnchanged

\* fetchAllTasksFromServer resumes from getAllTasksFromKV
RetryFetchReturn ==
  /\ retry.pc = "fetch"
  /\ \E reply \in RetryReplies :
       retry' = [retry EXCEPT
                   !.pc = CASE reply = "data" -> "clear"
                            [] reply = "error" -> "errRead"
                            [] OTHER -> "catchRead",
                   !.failed = reply /= "data",
                   !.error = reply /= "data",
                   !.allTasks = IF reply = "data" THEN "fetched" ELSE @]
  /\ RetryUnchanged

\* an awaited operation of the cache inside the try block: a failure is
\* caught by catch (error)
RetryCacheStep ==
  /\ retry.pc \in {"errRead", "clear", "bulkPut"}
  /\ \E ok \in BOOLEAN :
       retry' = [retry EXCEPT
                   !.pc = IF ~ok THEN "catchRead"
                          ELSE IF retry.pc = "clear" THEN "bulkPut"
                          ELSE "settled",
                   !.error = @ \/ ~ok,
                   !.isLoading = IF ok /\ retry.pc /= "clear" THEN FALSE
                                 ELSE @,
                   !.cache = IF ~ok \/ retry.pc = "errRead" THEN @
                             ELSE IF retry.pc = "clear" THEN "empty"
                             ELSE "fetched",
                   !.allTasks = IF ok /\ retry.pc = "errRead"
                                THEN retry.cache ELSE @]
  /\ RetryUnchanged

\* the catch block: db.tasks.toArray() inside its own try / catch, then the
\* finally block; the promise is fulfilled either way
RetryCatchRead ==
  /\ retry.pc = "catchRead"
  /\ \E ok \in BOOLEAN :
       retry' = [retry EXCEPT !.pc = "settled", !.isLoading = FALSE,
                              !.allTasks = IF ok THEN retry.cache
                                           ELSE "empty"]
  /\ RetryUnchanged

\* loadInitialData resumes from await fetchAllTasksFromServer(): its catch
\* block runs when the promise was rejected and sets the timeout
RetryLoadReturns ==
  /\ retry.pc = "settled"
  /\ retry' = [retry EXCEPT
                 !.pc = "finished",
                 !.timer = IF retry.rejected /\ retry.retryCount < MAX_RETRIES
                           THEN retry.time + RetryDelay(retry.retryCount)
                           ELSE -1]
  /\ RetryUnchanged

\* time passes; a due timeout calls setRetryCount((prev) => prev + 1) and
\* the render that follows runs the effect again
RetryTick ==
  /\ retry.time < MaxRetryTime
  /\ LET t == retry.time + TickMs
     IN  retry' = IF retry.timer >= 0 /\ t >= retry.timer
                  THEN [retry EXCEPT !.time = t, !.timer = -1,
                                     !.retryCount = @ + 1, !.pc = "effect"]
                  ELSE [retry EXCEPT !.time = t]
  /\ RetryUnchanged

RetryNext ==
  \/ RetryEffect
  \/ RetryFetchReturn
  \/ RetryCacheStep
  \/ RetryCatchRead
  \/ RetryLoadReturns
  \/ RetryTick

SpecRetry == RetryInit /\ [][RetryNext]_vars

(***************************************************************************)
(* SpecHook: a component that calls useDeepCompareEffect(callback,         *)
(* [allTasks, searchParams]), as TasksTable does.  A value of a dependency *)
(* is an object: ref tells which object it is, v what it holds; two        *)
(* objects may hold the same content.  hook.ref is the ref of usePrevious, *)
(* hook.deps the dependency list of the last render, calls the number of   *)
(* calls of the callback.                                                  *)
(***************************************************************************)
MaxRenders == 4

\* the arrays the provider may hand to the table
AllTasksObjects ==
  {[ref |-> 1, v |-> <<>>], [ref |-> 2, v |-> <<>>],
   [ref |-> 3, v |-> <<1>>], [ref |-> 4, v |-> <<1>>]}

\* the searchParams objects the page may hand to the table
SearchParamsObjects ==
  {[ref |-> 5, v |-> "page=1"], [ref |-> 6, v |-> "page=1"],
   [ref |-> 7, v |-> "page=2"]}

\* the dependency lists of a render
DependencyLists ==
  {<<a, p>> : a \in AllTasksObjects, p \in SearchParamsObjects}

\* ref.current of usePrevious before its first effect: undefined, which
\* no dependency list of TasksTable equals
NoDependencies == <<>>

\* isEqual comparing the elements with Object.is
isEqualByReference(a, b) == a = b

\* lodash.isequal on two dependency lists, or undefined and a list
isEqual(a, b) ==
  Len(a) = Len(b) /\ \A i \in DOMAIN a : a[i].v = b[i].v

HookInit ==
  /\ hook = [renders |-> 0, ref |-> NoDependencies,
             deps |-> NoDependencies, calls |-> 0, called |-> FALSE]
  /\ retry = <<>> /\ sync = <<>> /\ query = <<>>
  /\ StoreIdle /\ SessionIdle /\ UiIdle
  /\ SigIdle /\ WorkerIdle /\ ProviderIdle

\* A render and its commit: usePrevious returns ref.current, then the
\* effects run in the order of their hooks: ref.current = value, and the
\* comparison of previousDependencies with dependencies.
HookRender ==
  /\ hook.renders < MaxRenders
  /\ \E dependencies \in DependencyLists :
       LET previousDependencies == hook.ref
           runs == ~isEqual(previousDependencies, dependencies)
       IN  hook' = [renders |-> hook.renders + 1,
                    ref |-> dependencies,
                    deps |-> dependencies,
                    calls |-> IF runs THEN hook.calls + 1 ELSE hook.calls,
                    called |-> runs]
  /\ UNCHANGED <<retry, sync, query, stVars, providers, workers, ui, sigVars,
                 wkVars, coVars>>

HookNext == HookRender

SpecHook == HookInit /\ [][HookNext]_vars

(***************************************************************************)
(* SpecSync: syncTasksFromRedis of lib/indexeddb-data-service.ts.  sync    *)
(* holds the call in progress and the table it writes:                     *)
(*   pc      idle, fetch (await getAllTasksFromKV()), clearEmpty (the      *)
(*           clear of the branch for no data), clear, count, bulkPut,      *)
(*           returned                                                      *)
(*   table   the records of db.tasks                                       *)
(*   before  the records of db.tasks when the call was made                *)
(*   reply   what getAllTasksFromKV gave                                   *)
(*   success the success field of the value returned                       *)
(*   calls   the calls made so far                                         *)
(***************************************************************************)
MaxSyncCalls == 2

\* the tasks as syncTasksFromRedis stores them, with Date objects
StoredRecord(task) ==
  [task EXCEPT
     !.updatedAt = IF @ = Undefined THEN DateObj(2000) ELSE NewDate(@),
     !.createdAt = IF @ = Undefined THEN DateObj(2000) ELSE NewDate(@)]

\* kvTasks.map((task) => ({ ...task, updatedAt: ..., createdAt: ... }))
tasksToInsert(kvTasks) == [i \in DOMAIN kvTasks |-> StoredRecord(kvTasks[i])]

\* what an earlier sync may have left in the table
SyncTables == {{}, {StoredRecord(A1), StoredRecord(A2)}}

\* what getAllTasksFromKV may give the service: tasks, an error result,
\* neither data nor error, or a rejected call
SyncReplies ==
  FetchReplies \cup [type : {"nodata"}, data : {<<>>}]

SyncInit ==
  /\ sync \in [pc : {"idle"}, table : SyncTables, before : {{}},
               reply : {NoReply}, success : {FALSE}, calls : {0}]
  /\ retry = <<>> /\ hook = <<>> /\ query = <<>>
  /\ StoreIdle /\ SessionIdle /\ UiIdle
  /\ SigIdle /\ WorkerIdle /\ ProviderIdle

SyncUnchanged ==
  UNCHANGED <<retry, hook, query, stVars, providers, workers, ui, sigVars,
              wkVars, coVars>>

\* return { success: false, error } of the result.error branch or of the
\* catch block
SyncFails == [sync EXCEPT !.pc = "returned", !.success = FALSE]

\* syncTasksFromRedis is called
SyncCall ==
  /\ sync.pc \in {"idle", "returned"}
  /\ sync.calls < MaxSyncCalls
  /\ sync' = [sync EXCEPT !.pc = "fetch", !.before = sync.table,
                          !.reply = NoReply, !.success = FALSE,
                          !.calls = @ + 1]
  /\ SyncUnchanged

\* the call resumes from getAllTasksFromKV
SyncFetchReturn ==
  /\ sync.pc = "fetch"
  /\ \E reply \in SyncReplies :
       sync' = CASE reply.type \in {"error", "throw"} ->
                      [SyncFails EXCEPT !.reply = reply]
                 [] reply.type = "nodata" ->
                      [sync EXCEPT !.pc = "clearEmpty", !.reply = reply]
                 [] OTHER ->
                      [sync EXCEPT !.pc = "clear", !.reply = reply]
  /\ SyncUnchanged

\* await db.tasks.clear(), in the branch for no data or before the insert
SyncClear ==
  /\ sync.pc \in {"clearEmpty", "clear"}
  /\ \E ok \in BOOLEAN :
       sync' = IF ~ok THEN SyncFails
               ELSE IF sync.pc = "clearEmpty"
                    THEN [sync EXCEPT !.pc = "returned", !.success = TRUE,
                                      !.table = {}]
                    ELSE [sync EXCEPT !.pc = "count", !.table = {}]
  /\ SyncUnchanged

\* await db.tasks.count() inside the log message
SyncCount ==
  /\ sync.pc = "count"
  /\ \E ok \in BOOLEAN :
       sync' = IF ok THEN [sync EXCEPT !.pc = "bulkPut"] ELSE SyncFails
  /\ SyncUnchanged

\* await db.tasks.bulkPut(tasksToInsert)
SyncBulkPut ==
  /\ sync.pc = "bulkPut"
  /\ \E ok \in BOOLEAN :
       sync' = IF ok
               THEN [sync EXCEPT
                       !.pc = "returned", !.success = TRUE,
                       !.table = bulkPut(sync.table,
                                         tasksToInsert(sync.reply.data))]
               ELSE SyncFails
  /\ SyncUnchanged

SyncNext ==
  \/ SyncCall
  \/ SyncFetchReturn
  \/ SyncClear
  \/ SyncCount
  \/ SyncBulkPut

SpecSync == SyncInit /\ [][SyncNext]_vars

(***************************************************************************)
(* SpecQuery: the functions that compute what the table shows from the     *)
(* tasks: facetedData of TasksTable over allTasks, and getTasks and the    *)
(* facet queries of app/_lib/queries.ts over db.tasks.  query holds the    *)
(* records of db.tasks (table), the function last applied (op), the array  *)
(* facetedData was given (tasks), the arguments of getTasks (params) and   *)
(* what the function returned (out).                                       *)
(***************************************************************************)
MaxPage == 3
MaxPerPage == 2

QueryTask(id, status, priority, estimatedHours, createdAt) ==
  [id |-> id, code |-> id, title |-> "t1", estimatedHours |-> estimatedHours,
   status |-> status, label |-> "bug", priority |-> priority,
   archived |-> FALSE, createdAt |-> createdAt, updatedAt |-> createdAt]

\* the records a table may hold under each primary key: the second task
\* either as syncTasksFromRedis stores it or as bulkPut of the fetched JSON
\* does, with its timestamps as ISO strings
QueryRecords ==
  [i \in 1..4 |->
     CASE i = 1 -> {QueryTask(1, "todo", "low", 3, DateObj(2000))}
       [] i = 2 -> {QueryTask(2, "done", "high", 2, DateObj(1000)),
                    QueryTask(2, "done", "high", 2, IsoStr(1000))}
       [] i = 3 -> {QueryTask(3, "todo", "high", 5, DateObj(1000))}
       [] OTHER -> {QueryTask(4, "canceled", "low", 0, DateObj(2000))}]

\* the contents of db.tasks: at most one record for a primary key
QueryTables ==
  {tbl \in SUBSET (UNION {QueryRecords[i] : i \in 1..4}) :
     \A a, b \in tbl : a.id = b.id => a = b}

NoParams == [page |-> 1, perPage |-> 1, sort |-> <<>>, status |-> <<>>,
             priority |-> <<>>, estimatedHours |-> <<>>, createdAt |-> <<>>]

QueryInit ==
  /\ query \in [table : QueryTables, op : {"none"}, tasks : {<<>>},
                params : {NoParams}, out : {<<>>}]
  /\ retry = <<>> /\ hook = <<>> /\ sync = <<>>
  /\ StoreIdle /\ SessionIdle /\ UiIdle
  /\ SigIdle /\ WorkerIdle /\ ProviderIdle

QueryUnchanged ==
  UNCHANGED <<retry, hook, sync, stVars, providers, workers, ui, sigVars,
              wkVars, coVars>>

\* the second loop of facetedData: statusCounts[task.status] + 1 for the
\* tasks from the i-th on
RECURSIVE CountLoop(_, _, _, _)
CountLoop(tasks, i, field, counts) ==
  IF i > Len(tasks) THEN counts
  ELSE CountLoop(tasks, i + 1, field,
         [counts EXCEPT ![tasks[i][field]] = @ + 1])

\* minHours / maxHours initialised from allTasks[0] and never updated
FirstHoursOnly(tasks, i, first, range) ==
  [min |-> tasks[1].estimatedHours, max |-> tasks[1].estimatedHours]

\* the first loop of facetedData: minHours and maxHours over the tasks from
\* the i-th on; first is firstNonNullHourFound
RECURSIVE HoursLoop(_, _, _, _)
HoursLoop(tasks, i, first, range) ==
  IF i > Len(tasks) THEN range
  ELSE LET h == tasks[i].estimatedHours
       IN  HoursLoop(tasks, i + 1, TRUE,
             IF ~first THEN [min |-> h, max |-> h]
             ELSE [min |-> IF h < range.min THEN h ELSE range.min,
                   max |-> IF h > range.max THEN h ELSE range.max])

\* React.useMemo(() => ..., [allTasks]) of TasksTable
facetedData(tasks) ==
  IF Len(tasks) = 0
  THEN [statusCounts |-> [s \in Statuses |-> 0],
        priorityCounts |-> [p \in Priorities |-> 0],
        estimatedHoursRange |-> [min |-> 0, max |-> 0]]
  ELSE [statusCounts |->
          CountLoop(tasks, 1, "status", [s \in Statuses |-> 0]),
        priorityCounts |->
          CountLoop(tasks, 1, "priority", [p \in Priorities |-> 0]),
        estimatedHoursRange |->
          HoursLoop(tasks, 1, FALSE,
            [min |-> tasks[1].estimatedHours,
             max |-> tasks[1].estimatedHours])]

\* TasksTable renders with the working task set: the tasks of the table in
\* any order
QueryFacetedData ==
  /\ \E working \in PermutationsOf(toArray(query.table)) :
       query' = [query EXCEPT !.op = "facetedData", !.tasks = working,
                              !.params = NoParams,
                              !.out = facetedData(working)]
  /\ QueryUnchanged

\* tasks.forEach((task) => { if (task.status in counts) counts[...]++ })
\* of the scan versions, for the tasks from the i-th on
RECURSIVE ForEachCount(_, _, _, _)
ForEachCount(tasks, i, field, counts) ==
  IF i > Len(tasks) THEN counts
  ELSE ForEachCount(tasks, i + 1, field,
         IF tasks[i][field] \in DOMAIN counts
         THEN [counts EXCEPT ![tasks[i][field]] = @ + 1]
         ELSE counts)

\* Math.min(...values) / Math.max(...values) of a non-empty array
MathMin(values) ==
  CHOOSE v \in Range(values) : \A w \in Range(values) : v <= w
MathMax(values) ==
  CHOOSE v \in Range(values) : \A w \in Range(values) : v >= w

\* the scan versions: one db.tasks.toArray() and a pass over the array
getTaskStatusCountsScan(table) ==
  ForEachCount(toArray(table), 1, "status", [s \in Statuses |-> 0])

getTaskPriorityCountsScan(table) ==
  ForEachCount(toArray(table), 1, "priority", [p \in Priorities |-> 0])

getEstimatedHoursRangeScan(table) ==
  LET tasks == toArray(table)
      estimatedHours == [i \in DOMAIN tasks |-> tasks[i].estimatedHours]
  IN  IF Len(tasks) = 0 THEN [min |-> 0, max |-> 0]
      ELSE [min |-> MathMin(estimatedHours), max |-> MathMax(estimatedHours)]

\* db.tasks.where(field).equals(value).count()
WhereEqualsCount(table, field, value) ==
  Cardinality({t \in table : t[field] = value})

\* orderBy reading the table in the order of the primary key
orderByPrimaryKey(table, field) == toArray(table)

\* db.tasks.orderBy(field): the records in the order of the index, records
\* of equal key in the order of the primary key
orderBy(table, field) ==
  LET tasks == toArray(table)
  IN  StableSort(tasks, [i \in DOMAIN tasks |-> tasks[i][field]])

\* the optimized versions: one count per value, first and last of the index
getTaskStatusCounts(table) ==
  [s \in Statuses |-> WhereEqualsCount(table, "status", s)]

getTaskPriorityCounts(table) ==
  [p \in Priorities |-> WhereEqualsCount(table, "priority", p)]

getEstimatedHoursRange(table) ==
  LET recordCount == Cardinality(table)
      ordered == orderBy(table, "estimatedHours")
  IN  IF recordCount = 0 THEN [min |-> 0, max |-> 0]
      ELSE [min |-> ordered[1].estimatedHours,
            max |-> ordered[Len(ordered)].estimatedHours]

\* the facet queries are run on the table, in both versions
QueryFacets ==
  /\ query' =
       [query EXCEPT
          !.op = "facets", !.tasks = <<>>, !.params = NoParams,
          !.out =
            [scan |->
               [statusCounts |-> getTaskStatusCountsScan(query.table),
                priorityCounts |-> getTaskPriorityCountsScan(query.table),
                estimatedHoursRange |->
                  getEstimatedHoursRangeScan(query.table)],
             optimized |->
               [statusCounts |-> getTaskStatusCounts(query.table),
                priorityCounts |-> getTaskPriorityCounts(query.table),
                estimatedHoursRange |->
                  getEstimatedHoursRange(query.table)]]]
  /\ QueryUnchanged

\* the arguments getTasks is called with
StatusParams == {<<>>, <<"todo">>}
PriorityParams == {<<>>, <<"high">>}
EstimatedHoursParams == {<<>>, <<2, 5>>}
CreatedAtParams == {<<>>, <<1000, 1500>>}
SortParams ==
  {<<>>,
   <<[id |-> "estimatedHours", desc |-> TRUE]>>,
   <<[id |-> "priority", desc |-> FALSE], [id |-> "createdAt", desc |-> TRUE]>>}

GetTasksParams ==
  [page : 1..MaxPage, perPage : 1..MaxPerPage, sort : SortParams,
   status : StatusParams, priority : PriorityParams,
   estimatedHours : EstimatedHoursParams, createdAt : CreatedAtParams]

\* statusParams.includes(task.status)
Includes(list, value) == \E i \in DOMAIN list : list[i] = value

\* task.createdAt >= startDate && task.createdAt <= endDate with Date
\* objects for the bounds: a Date is compared by its time, a string is
\* converted to a number, NaN for an ISO string, and is in no range
CreatedAtBetween(createdAt, startDate, endDate) ==
  createdAt.k = "Date" /\ createdAt.ms >= startDate /\ createdAt.ms <= endDate

\* the filters of getTasks applied to one record
CollectionFilter(task, params) ==
  /\ Len(params.status) > 0 => Includes(params.status, task.status)
  /\ Len(params.priority) > 0 => Includes(params.priority, task.priority)
  /\ Len(params.estimatedHours) = 2 =>
       /\ task.estimatedHours >= params.estimatedHours[1]
       /\ task.estimatedHours <= params.estimatedHours[2]
  /\ Len(params.createdAt) = 2 =>
       CreatedAtBetween(task.createdAt, params.createdAt[1],
                        params.createdAt[2])

\* the place of a string among those of the model in the order of
\* localeCompare
LocaleRank(str) ==
  CASE str = "canceled" -> 1 [] str = "done" -> 2 [] str = "high" -> 3
    [] str = "in-progress" -> 4 [] str = "low" -> 5 [] str = "medium" -> 6
    [] OTHER -> 7

\* The comparator of the sort loop as a key: numbers by value, strings by
\* localeCompare, Date objects by getTime(); a string and a Date are
\* compared as lower-case strings, where an ISO string ("1970-...") comes
\* before the text of a Date ("thu jan 01 1970 ...").
ComparatorKey(task, id) ==
  CASE id = "estimatedHours" -> task.estimatedHours
    [] id = "createdAt" ->
         IF task.createdAt.k = "Date" THEN 100000 + task.createdAt.ms
         ELSE task.createdAt.ms
    [] OTHER -> LocaleRank(task[id])

\* tasksToProcess.sort(...) for one sortParam; Array.prototype.sort is stable
SortBy(tasks, sortParam) ==
  StableSort(tasks,
    [i \in DOMAIN tasks |->
       IF sortParam.desc THEN 0 - ComparatorKey(tasks[i], sortParam.id)
       ELSE ComparatorKey(tasks[i], sortParam.id)])

\* for (let i = sort.length - 1; i >= 0; i--) tasksToProcess.sort(...)
RECURSIVE SortLoop(_, _, _)
SortLoop(tasks, sort, i) ==
  IF i < 1 THEN tasks ELSE SortLoop(SortBy(tasks, sort[i]), sort, i - 1)

\* b.createdAt.getTime() - a.createdAt.getTime() of the default sort is a
\* TypeError when a createdAt compared is a string
DefaultSortThrows(tasks) ==
  Len(tasks) >= 2 /\ \E i \in DOMAIN tasks : tasks[i].createdAt.k /= "Date"

\* Math.ceil(total / perPage)
CeilDiv(total, perPage) == (total + perPage - 1) \div perPage

\* getTasks(params) on the records of db.tasks
getTasks(table, params) ==
  LET Keeps(task) == CollectionFilter(task, params)
      tasksToProcess == SelectSeq(toArray(table), Keeps)
      total == Len(tasksToProcess)
      sorted ==
        IF Len(params.sort) > 0
        THEN SortLoop(tasksToProcess, params.sort, Len(params.sort))
        ELSE StableSort(tasksToProcess,
               [i \in DOMAIN tasksToProcess |->
                  0 - tasksToProcess[i].createdAt.ms])
      offset == (params.page - 1) * params.perPage
      end == IF offset + params.perPage < total THEN offset + params.perPage
             ELSE total
  IN  IF Len(params.sort) = 0 /\ DefaultSortThrows(tasksToProcess)
      THEN [data |-> <<>>, pageCount |-> 0, total |-> 0]
      ELSE [data |-> SubSeq(sorted, offset + 1, end),
            pageCount |-> CeilDiv(total, params.perPage),
            total |-> total]

\* the table view calls getTasks(searchParams)
QueryGetTasks ==
  /\ \E params \in GetTasksParams :
       query' = [query EXCEPT !.op = "getTasks", !.tasks = <<>>,
                              !.params = params,
                              !.out = getTasks(query.table, params)]
  /\ QueryUnchanged

QueryNext ==
  \/ QueryFacetedData
  \/ QueryFacets
  \/ QueryGetTasks

SpecQuery == QueryInit /\ [][QueryNext]_vars

(***************************************************************************)
(* Properties.                                                             *)
(***************************************************************************)
\* two collections hold the same tasks, in any order
ContentEqual(a, b) == Len(a) = Len(b) /\ Range(a) = Range(b)

\* the step is the delivery of one answer of the worker to the page
IsWorkerMessageStep ==
  inbox /= <<>> /\ inbox' = Tail(inbox) /\ workerErrors' = workerErrors

\* C1: a cycle whose fetch gave a collection content-equal to allTasks
\* does not call setAllTasks and starts no write of the cache.
C1_EqualFetchIsNoOp ==
  [][\A c \in DOMAIN cyc :
       (/\ cyc[c].pc = "awaitSig"
        /\ ContentEqual(cyc[c].reply.data, allTasks))
         => /\ cyc'[c].sets = cyc[c].sets
            /\ cyc'[c].pc \notin {"clear", "bulkPut"}]_vars

\* C2: a mount that reads a non-empty cache and fetches a collection
\* content-equal to it, with no other cycle and no failure, ends with the
\* array read from the cache as allTasks, one setAllTasks call, isLoading
\* false and no clear or bulkPut.
C2_MountWithUnchangedData ==
  (/\ Len(cyc) = 1
   /\ idbFailures = 0 /\ workerErrors = 0
   /\ cyc[1].kind = "initial" /\ cyc[1].pc = "done"
   /\ cyc[1].cacheRead /= <<>>
   /\ cyc[1].reply.type = "data"
   /\ ContentEqual(cyc[1].reply.data, cyc[1].cacheRead))
    => /\ allTasks = cyc[1].cacheRead
       /\ cyc[1].sets = 1
       /\ cyc[1].writes = 0
       /\ ~isLoadingAllTasks

\* C3: a call of fetchAllTasksFromServer made while an earlier call is in
\* flight issues, together with that call, one remote fetch and at most
\* one signature request for fetched data.
C3_OverlappingCallsCoalesce ==
  \A b \in DOMAIN cyc : \A a \in cyc[b].during :
    /\ cyc[a].fetches + cyc[b].fetches = 1
    /\ cyc[a].sigRequests + cyc[b].sigRequests <= 1

\* C4: once a cycle B, started while cycle A was in flight, has adopted
\* its data and written it to the cache, A, whose fetch gave other data,
\* no longer changes allTasks or the cache.
C4_StaleResponseDiscarded ==
  [][\A a, b \in DOMAIN cyc :
       (/\ a \in cyc[b].during
        /\ cyc[b].pc = "done" /\ cyc[b].adopted /\ cyc[b].writes = 2
        /\ allTasks = cyc[b].reply.data
        /\ cyc[a].pc = "awaitSig"
        /\ ~ContentEqual(cyc[a].reply.data, cyc[b].reply.data))
         => /\ allTasks' = allTasks
            /\ cyc'[a].pc \notin {"clear", "bulkPut"}]_vars

\* C5: while a request of the allTasks effect and a request for fetched
\* data are outstanding at the worker, an answer resolves the promise of a
\* cycle only if it answers that cycle's request, and changes
\* currentTasksSignature only if it answers a request of the effect.
C5_NoCrossTalk ==
  [][(/\ IsWorkerMessageStep
      /\ \E i, j \in DOMAIN inbox : inbox[i].tag = 0 /\ inbox[j].tag /= 0)
       => /\ \A c \in Range(listeners) : Head(inbox).tag = c
          /\ Head(inbox).tag /= 0 =>
               currentTasksSignature' = currentTasksSignature]_vars

\* C6: generateSignature gives a permutation of a collection the
\* signature it gives the collection.
C6_SignatureOrderIndependent ==
  (sKind = "permuted" /\ ~sOut.threw) => sOut.gP = sOut.gT

\* C7: generateSignature gives a collection with one field of one task
\* changed another signature than it gives the collection.
C7_SignatureSensitive ==
  (sKind \in Fields /\ ~sOut.threw) => sOut.gP /= sOut.gT

\* C8: every signature the worker posts for a process request is
\* generateSignature of the tasks of that request.
C8_CacheKeepsAnswer ==
  \A i \in DOMAIN wPosted :
    wPosted[i].kind = "signature" =>
      wPosted[i].signature = generateSignature(wReqs[wPosted[i].req].tasks)

\* C9: when the worker has handled every message and no debounce timer is
\* set, it has posted a response for each process message it received.
C9_EveryRequestSettled ==
  (wInbox = <<>> /\ ~debounceTimeout) =>
    \A n \in DOMAIN wReqs :
      wReqs[n].type = "process" =>
        \E i \in DOMAIN wPosted : wPosted[i].req = n

\* C10: a cycle whose signature promise was rejected adopts the fetched
\* collection as allTasks and writes it to the cache.
C10_WorkerFailureAssumesChanged ==
  \A c \in DOMAIN cyc :
    (cyc[c].sigFailed /\ cyc[c].pc = "done") =>
      /\ cyc[c].adopted
      /\ allTasks = cyc[c].reply.data
      /\ cyc[c].writes = 2

\* C11: once every cycle that was started has returned or rejected,
\* isLoadingAllTasks is false.
C11_LoadingClearedAfterCycles ==
  (cyc /= <<>> /\ \A c \in DOMAIN cyc : cyc[c].pc \in {"done", "rejected"})
    => ~isLoadingAllTasks

\* C16: a cycle that has set fetched data as allTasks or written it to
\* the cache has before received the signature of that data to compare.
C16_ComparisonBeforeCommit ==
  \A c \in DOMAIN cyc :
    (cyc[c].adopted \/ cyc[c].writes > 0) => cyc[c].sigFrom /= -1

\* the step ends the await of fetchedSignaturePromise of cycle c with an
\* answer of the worker
IsDecisionStep(c) ==
  /\ cyc[c].pc = "awaitSig"
  /\ cyc'[c].pc /= "awaitSig"
  /\ ~cyc'[c].sigFailed

\* C12: a cycle whose remote fetch failed while allTasks was not empty
\* leaves allTasks content-equal to what it was, and so not empty.
C12_RemoteFailureKeepsData ==
  [][\A c \in DOMAIN cyc :
       (/\ cyc[c].pc \in {"errRead", "catchRead"}
        /\ cyc[c].reply.type \in {"error", "throw"}
        /\ cyc'[c].pc = "done"
        /\ allTasks /= <<>>)
         => ContentEqual(allTasks', allTasks)]_vars

\* C13: an initial load, alone, that read an empty cache and whose remote
\* fetch failed ends, the cache still empty, with allTasks empty, an error
\* string set, and without rejecting.
C13_FallbackWithNoData ==
  (/\ Len(cyc) = 1
   /\ cyc[1].kind = "initial"
   /\ cyc[1].cacheRead = <<>>
   /\ cyc[1].reply.type \in {"error", "throw"}
   /\ cyc[1].pc \in {"done", "rejected"}
   /\ idb = {})
    => /\ allTasks = <<>>
       /\ errorLoadingAllTasks /= "null"
       /\ cyc[1].pc = "done"

C13_Witness ==
  /\ Len(cyc) = 1
  /\ cyc[1].kind = "initial"
  /\ cyc[1].cacheRead = <<>>
  /\ cyc[1].reply.type = "throw"
  /\ cyc[1].pc = "done"
  /\ idb = {}
  /\ errorLoadingAllTasks = "threw"

\* C14: no call of fetchAllTasksFromServer or of loadInitialData rejects.
C14_NoRejection ==
  \A c \in DOMAIN cyc : cyc[c].pc /= "rejected"

\* C15: an initial load, alone, whose cache read threw has called
\* fetchAllTasksFromServer all the same, and when the fetch gave data and
\* the worker answered, allTasks holds the fetched collection.
C15_CacheFailureDoesNotBlock ==
  (/\ Len(cyc) = 1
   /\ cyc[1].kind = "retry"
   /\ cyc[1].pc \in {"done", "rejected"})
    => /\ cyc[1].fetches >= 1
       /\ (cyc[1].reply.type = "data" /\ ~cyc[1].sigFailed)
            => ContentEqual(allTasks, cyc[1].reply.data)

C15_Witness ==
  /\ Len(cyc) = 1
  /\ cyc[1].kind = "retry"
  /\ cyc[1].pc = "done"
  /\ cyc[1].reply.type = "data"
  /\ Len(cyc[1].reply.data) = 2
  /\ ~cyc[1].sigFailed
  /\ idb /= {}
  /\ Len(allTasks) = 2

\* C17: while a cycle that found a non-empty cache and adopted a
\* non-empty collection is between clear and bulkPut, a fallback read of
\* the cache by another cycle does not give an empty array.
C17_CacheReplacementAtomic ==
  [][\A a, c \in DOMAIN cyc :
       (/\ a /= c
        /\ cyc[a].pc = "bulkPut"
        /\ cyc[a].cacheRead /= <<>>
        /\ cyc[a].reply.data /= <<>>
        /\ cyc[c].pc \in {"errRead", "catchRead"}
        /\ cyc'[c].pc = "done")
         => allTasks' /= <<>>]_vars

\* C18: when two overlapping cycles have both adopted their data and
\* finished writing, the cache holds the records of one of the two
\* fetched collections.
C18_NoInterleavedWrites ==
  \A a, b \in DOMAIN cyc :
    (/\ a \in cyc[b].during
     /\ cyc[a].adopted /\ cyc[a].pc = "done" /\ cyc[a].writes = 2
     /\ cyc[b].adopted /\ cyc[b].pc = "done" /\ cyc[b].writes = 2)
      => \/ idb = Range(cyc[a].reply.data)
         \/ idb = Range(cyc[b].reply.data)

\* C19: an initial load, alone and without failures, that read an empty
\* cache and fetched a collection ends with allTasks and the cache holding
\* exactly the tasks of that collection.
C19_EmptyCacheSync ==
  (/\ Len(cyc) = 1
   /\ idbFailures = 0 /\ workerErrors = 0
   /\ cyc[1].kind = "initial"
   /\ cyc[1].cacheRead = <<>>
   /\ cyc[1].reply.type = "data"
   /\ cyc[1].pc = "done")
    => /\ ContentEqual(allTasks, cyc[1].reply.data)
       /\ ContentEqual(toArray(idb), cyc[1].reply.data)

C19_Witness ==
  /\ Len(cyc) = 1
  /\ idbFailures = 0 /\ workerErrors = 0
  /\ cyc[1].kind = "initial"
  /\ cyc[1].cacheRead = <<>>
  /\ cyc[1].reply.type = "data"
  /\ Len(cyc[1].reply.data) = 2
  /\ cyc[1].pc = "done"
  /\ cyc[1].writes = 2

\* C20: when the worker answers a cycle whose fetch gave a collection in
\* which a task of allTasks has another status, allTasks becomes the
\* fetched collection and getTaskById gives that task its new status.
C20_ChangedTaskAdopted ==
  [][\A c \in DOMAIN cyc :
       IsDecisionStep(c) =>
         \A i \in DOMAIN cyc[c].reply.data :
           LET t == cyc[c].reply.data[i]
           IN  (/\ FindTask(allTasks, t.id) /= Undefined
                /\ FindTask(allTasks, t.id).status /= t.status)
                 => /\ allTasks' = cyc[c].reply.data
                    /\ FindTask(allTasks', t.id).status = t.status]_vars

\* C22: every response posted for a process request has the id of that
\* request and is either a signature or an error; every id posted is the
\* id of a message received; no request gets two responses.
C22_WorkerProtocol ==
  \A i \in DOMAIN wPosted :
    /\ \E n \in DOMAIN wReqs : wReqs[n].id = wPosted[i].id
    /\ wReqs[wPosted[i].req].type = "process" =>
         /\ wPosted[i].id = wReqs[wPosted[i].req].id
         /\ wPosted[i].kind \in {"signature", "error"}
    /\ \A j \in DOMAIN wPosted : j /= i => wPosted[j].req /= wPosted[i].req

C22_Witness ==
  /\ \E i, j \in DOMAIN wPosted :
       /\ wPosted[i].kind = "signature"
       /\ wPosted[j].kind = "error"
       /\ wReqs[wPosted[j].req].type = "process"
       /\ wPosted[i].id = wPosted[j].id
  /\ wInbox = <<>>
  /\ ~debounceTimeout

\* C23: whenever no debounce timer is set, taskCache has at most
\* CACHE_SIZE entries and pendingTasks is empty.
C23_BoundedCache ==
  ~debounceTimeout =>
    /\ Len(taskCache) <= CACHE_SIZE
    /\ pendingTasks = <<>>

\* a batch was handled while the cache was full
C23_Witness ==
  /\ ~debounceTimeout
  /\ wInbox = <<>>
  /\ Len(taskCache) = CACHE_SIZE
  /\ \E i \in DOMAIN wPosted :
       /\ wPosted[i].kind = "signature"
       /\ ~MapHas(FullCache, generateCacheKey(wReqs[wPosted[i].req].tasks))

\* the timestamps no date can be read from
Malformed == {"bad", "InvalidDate", "undefined"}

\* the collection with every malformed timestamp replaced by epoch 0
WithEpochZero(tasks) ==
  [i \in DOMAIN tasks |->
     [tasks[i] EXCEPT
        !.createdAt = IF @.k \in Malformed THEN DateObj(0) ELSE @,
        !.updatedAt = IF @.k \in Malformed THEN DateObj(0) ELSE @]]

\* C24: for a collection in which a createdAt or updatedAt is missing or
\* unparseable, both signature functions complete and give the signature
\* of the collection with that timestamp equal to epoch 0.
C24_MalformedIsEpochZero ==
  (/\ sKind \in {"createdAt", "updatedAt"}
   /\ \E i \in DOMAIN sP : sP[i][sKind].k \in Malformed)
    => /\ ~sOut.threw
       /\ sOut.nP = SimpleSignature(WithEpochZero(sP))
       /\ sOut.gP = generateSignature(WithEpochZero(sP))

\* C30: when a cycle whose fetch gave data returns and leaves no cycle in
\* flight, no cache operation or worker having failed, allTasks, the cache
\* and the fetched collection are content-equal.
C30_ThreeCopiesConverge ==
  [][\A c \in DOMAIN cyc :
       (/\ cyc[c].pc /= "done" /\ cyc'[c].pc = "done"
        /\ cyc[c].reply.type = "data"
        /\ idbFailures' = 0 /\ workerErrors' = 0
        /\ \A d \in DOMAIN cyc : cyc'[d].pc \in {"done", "rejected"})
         => /\ ContentEqual(allTasks', cyc[c].reply.data)
            /\ ContentEqual(toArray(idb'), cyc[c].reply.data)]_vars

\* the step is the return of the action op with error: null
Returned(op) == lastOp'.op = op /\ lastOp'.ok /\ (lastOp' /= lastOp \/ redis' /= redis)

\* C25: a call of getAllTasksFromKV that has returned gave either data and
\* error null, the data being the stored tasks when no other action
\* changed the store meanwhile, or no data and an error string.
C25_FetchResultShape ==
  kv.pc = "returned" =>
    \/ /\ kv.hasData /\ kv.error = "null"
       /\ ~kv.disturbed =>
            /\ Range(kv.data) = {redis[k] : k \in DOMAIN redis}
            /\ Len(kv.data) = Cardinality(DOMAIN redis)
    \/ ~kv.hasData /\ kv.error /= "null"

C25_Witness ==
  /\ kv.pc = "returned"
  /\ kv.hasData
  /\ ~kv.disturbed
  /\ Len(kv.data) = MaxStoreIds

\* C26: when updateTask or updateTasks returns without error, every stored
\* task it was called for has an updatedAt not earlier than the call.
C26_UpdateBumpsUpdatedAt ==
  [][(Returned("updateTask") \/ Returned("updateTasks")) =>
       \A id \in lastOp'.ids \cap DOMAIN redis :
         redis'[id].updatedAt.ms >= serverNow]_vars

\* C27: when createTask returns without error, every task the store held
\* is still there unchanged, and there is exactly one more.
C27_CreateNeverOverwrites ==
  [][Returned("createTask") =>
       /\ \A id \in DOMAIN redis : id \in DOMAIN redis' /\ redis'[id] = redis[id]
       /\ Cardinality(DOMAIN redis' \ DOMAIN redis) = 1]_vars

\* C28: every task in the remote store, the local cache and allTasks has
\* an updatedAt not earlier than its createdAt.
C28_UpdatedNotBeforeCreated ==
  \A t \in {redis[k] : k \in DOMAIN redis} \cup idb \cup Range(allTasks) :
    t.updatedAt.ms >= t.createdAt.ms

\* C21: in every state of a session at most one signature worker is alive and
\* no more than one worker was ever created, so that every signature
\* request of the session goes to the same worker
C21_SingleWorker ==
  /\ Cardinality({i \in DOMAIN workers : workers[i].alive}) <= 1
  /\ Len(workers) <= 1

\* C29: every create, update or delete whose server action returned without
\* error, once its handler has finished, has called the refresh of the
\* working task set (refreshTableData / fetchAllTasksFromServer)
C29_MutationRefreshes ==
  \A i \in DOMAIN ui :
    ui[i].pc = "finished" /\ ui[i].result \in {"data", "nodata", "ok"}
      => ui[i].refreshed

\* the signature the provider would remember for a working task set
SignatureOf(tasks) ==
  IF Len(tasks) = 0 THEN JsonString(<<>>) ELSE SimpleSignature(tasks)

\* no signature request is outstanding and no cycle is in flight
Quiescent ==
  /\ mounted
  /\ inbox = <<>> /\ ~sigEffectPending
  /\ \A c \in DOMAIN cyc : cyc[c].pc \in {"done", "rejected"}

\* C31: whenever no signature request is outstanding and no cycle is in
\* flight, no worker or cache operation having failed,
\* currentTasksSignature is the signature of allTasks (that of the empty
\* collection when allTasks is empty).
C31_SignatureTracksWorkingSet ==
  Quiescent /\ workerErrors = 0 /\ idbFailures = 0
    => currentTasksSignature = SignatureOf(allTasks)

IsProcessPendingStep ==
  debounceTimeout /\ ~debounceTimeout' /\ wInbox' = wInbox

\* C33: when processPendingTasks has inserted signatures into a full cache,
\* every entry just inserted is still in the cache, and every entry removed
\* was used no later than every entry kept.
C33_EvictsLeastRecentlyUsed ==
  [][IsProcessPendingStep =>
       /\ \A i \in DOMAIN pendingTasks :
            ~SignatureThrows(pendingTasks[i].tasks)
              => MapHas(taskCache', generateCacheKey(pendingTasks[i].tasks))
       /\ \A r \in Range(taskCache), k \in Range(taskCache') :
            ~MapHas(taskCache', r.key) => r.timestamp <= k.timestamp]_vars

\* C34: a run of loadInitialData whose load from the server failed and that
\* has returned, fewer than MAX_RETRIES retries having been made, has set
\* the timeout of a retry; and there are never more than MAX_RETRIES + 1
\* runs.
C34_FailedLoadIsRetried ==
  retry /= <<>> =>
       /\ retry.attempts <= MAX_RETRIES + 1
       /\ (retry.pc = "finished" /\ retry.failed
             /\ retry.retryCount < MAX_RETRIES) => retry.timer >= 0

\* the content of a dependency list
ContentOf(deps) == [i \in DOMAIN deps |-> deps[i].v]

\* C35: the callback is called on the first render, and on a later render
\* exactly when the content of its dependency list differs from the content
\* of the list of the render before.
C35_DeepCompareEffect ==
  [][hook'.renders = hook.renders + 1 =>
       hook'.calls - hook.calls =
         IF hook.renders = 0 THEN 1
         ELSE IF ContentOf(hook'.deps) /= ContentOf(hook.deps) THEN 1
         ELSE 0]_vars

\* a render with new objects of the same content has not called the
\* callback, after a render that did
C35_Witness ==
  /\ hook /= <<>> /\ hook.renders = MaxRenders
  /\ hook.calls = 2 /\ ~hook.called

\* C36: whenever syncTasksFromRedis has returned { success: false }, the
\* table holds the records it held when the call was made.
C36_FailedSyncKeepsCache ==
  (sync /= <<>> /\ sync.pc = "returned" /\ ~sync.success)
    => sync.table = sync.before

\* C37: the faceted data computed for the working task set: each count is
\* the number of tasks of that status or priority, the counts of a facet
\* sum to the number of tasks, and the hours of every task lie within the
\* range, which is 0..0 for no tasks.
C37_FacetedCountsExact ==
  query.op = "facetedData" =>
    LET tasks == query.tasks
        f == query.out
        Number(field, value) ==
          Cardinality({i \in DOMAIN tasks : tasks[i][field] = value})
    IN  /\ \A s \in Statuses : f.statusCounts[s] = Number("status", s)
        /\ \A p \in Priorities : f.priorityCounts[p] = Number("priority", p)
        /\ f.statusCounts["todo"] + f.statusCounts["in-progress"]
             + f.statusCounts["done"] + f.statusCounts["canceled"]
             = Len(tasks)
        /\ f.priorityCounts["low"] + f.priorityCounts["medium"]
             + f.priorityCounts["high"] = Len(tasks)
        /\ \A i \in DOMAIN tasks :
             /\ f.estimatedHoursRange.min <= tasks[i].estimatedHours
             /\ tasks[i].estimatedHours <= f.estimatedHoursRange.max
        /\ Len(tasks) = 0 => f.estimatedHoursRange = [min |-> 0, max |-> 0]

\* faceted data were computed for four tasks of which the first has neither
\* the fewest nor the most hours
C37_Witness ==
  /\ query /= <<>> /\ query.op = "facetedData" /\ Len(query.tasks) = 4
  /\ query.out.estimatedHoursRange.min < query.tasks[1].estimatedHours
  /\ query.tasks[1].estimatedHours < query.out.estimatedHoursRange.max

\* C38: on every content of the table the optimized facet queries return
\* what the scan versions return.
C38_OptimizedEqualsScan ==
  query.op = "facets" => query.out.optimized = query.out.scan

\* the facet queries were run on a table of four records
C38_Witness ==
  /\ query /= <<>> /\ query.op = "facets" /\ Cardinality(query.table) = 4
  /\ query.out.optimized.estimatedHoursRange = [min |-> 0, max |-> 5]

\* a task matches the filters of a query: its status and priority are among
\* those asked for, its hours and the instant of its creation within the
\* ranges asked for
MatchesFilters(task, params) ==
  /\ Len(params.status) > 0 => Includes(params.status, task.status)
  /\ Len(params.priority) > 0 => Includes(params.priority, task.priority)
  /\ Len(params.estimatedHours) = 2 =>
       /\ task.estimatedHours >= params.estimatedHours[1]
       /\ task.estimatedHours <= params.estimatedHours[2]
  /\ Len(params.createdAt) = 2 =>
       /\ task.createdAt.ms >= params.createdAt[1]
       /\ task.createdAt.ms <= params.createdAt[2]

\* the value a task is ordered by under one sort key: a number, the place
\* of a string in alphabetical order, the instant of a timestamp
OrderKey(task, sortParam) ==
  LET v == CASE sortParam.id = "estimatedHours" -> task.estimatedHours
             [] sortParam.id = "createdAt" -> task.createdAt.ms
             [] OTHER -> LocaleRank(task[sortParam.id])
  IN  IF sortParam.desc THEN 0 - v ELSE v

\* a comes no later than b in the lexicographic order of the sort keys from
\* the i-th on
RECURSIVE LexLE(_, _, _, _)
LexLE(a, b, sort, i) ==
  IF i > Len(sort) THEN TRUE
  ELSE IF OrderKey(a, sort[i]) < OrderKey(b, sort[i]) THEN TRUE
  ELSE IF OrderKey(a, sort[i]) > OrderKey(b, sort[i]) THEN FALSE
  ELSE LexLE(a, b, sort, i + 1)

\* the sort list a query orders by: createdAt descending when none is given
EffectiveSort(sort) ==
  IF Len(sort) = 0 THEN <<[id |-> "createdAt", desc |-> TRUE]>> ELSE sort

\* the pages 1..n of a query one after the other
RECURSIVE PagesUpTo(_, _, _)
PagesUpTo(table, params, n) ==
  IF n = 0 THEN <<>>
  ELSE PagesUpTo(table, params, n - 1)
         \o getTasks(table, [params EXCEPT !.page = n]).data

\* C39: getTasks returns total = the number of tasks matching the filters
\* and pageCount = ceil(total / perPage); the pages 1..pageCount one after
\* the other hold every matching task once, in the lexicographic order of
\* the sort keys (createdAt descending when no sort is given), each page
\* but the last holding perPage tasks; the page returned is the one asked
\* for.
C39_PaginationPartitions ==
  query.op = "getTasks" =>
    LET params == query.params
        matching == {t \in query.table : MatchesFilters(t, params)}
        all == PagesUpTo(query.table, params, query.out.pageCount)
        sort == EffectiveSort(params.sort)
        offset == (params.page - 1) * params.perPage
    IN  /\ query.out.total = Cardinality(matching)
        /\ query.out.pageCount = CeilDiv(query.out.total, params.perPage)
        /\ Len(all) = Cardinality(matching)
        /\ Range(all) = matching
        /\ \A i, j \in DOMAIN all : i < j => LexLE(all[i], all[j], sort, 1)
        /\ query.out.data =
             SubSeq(all, offset + 1,
                    IF offset + params.perPage < Len(all)
                    THEN offset + params.perPage ELSE Len(all))

====
